---- MODULE Spec2Model ----
(***************************************************************************)
(* A model of src/src/main_DiffeoMappingNet.py (ChenLiu-1996/IMaD):        *)
(*   - stitch_patches / extract_h_w   (specification Spec)                 *)
(*   - flip_rot / predict_flipping_rotation (specification SpecOrient)     *)
(*   - train                           (specification SpecTrain)           *)
(*   - eval_stitched                   (specification SpecEval)            *)
(*   - infer, with its calls of the two (specification SpecInfer)          *)
(*   - the cyclic loss of one image    (specification SpecCyclic)          *)
(*   - test                            (specification SpecTest)            *)
(* Strings are sequences of one-character strings, compared by code point. *)
(***************************************************************************)
EXTENDS Integers, Sequences, FiniteSets, TLC

VARIABLES
    \* ---- stitch_patches ----
    folder_files,        \* basenames of the files present in pred_label_folder
    patch_content,       \* basename -> pixel pattern of that patch image
    spc,                 \* position of stitch_patches
    label_list,          \* sorted(glob(pred_label_folder + '/*.png'))
    scan_i,              \* index of the first loop (lines 606-616)
    base_label_list,     \* base label paths, in order of first appearance
    base_i,              \* index of the loop over base_label_list (line 621)
    label_patch_list,    \* the patches selected for the current base (line 624)
    patch_j,             \* index of the loop over label_patch_list (line 626)
    label_stitched,      \* the canvas being built
    stitched_label_list, \* the canvases finished so far
    disk_stitched,       \* save_path -> canvas written by cv2.imwrite (line 653)
    disk_colored,        \* color_save_path -> green pixels written (line 659)
    last_write,          \* what the latest execution of line 648 assigned
    written_into,        \* history: <<patch path, base path>> for every line-648 write
    \* ---- predict_flipping_rotation / apply_flipping_rotation ----
    opc,                 \* position of predict_flipping_rotation
    image_moving,        \* the batch of moving images, [B][H][W]
    ncc_response,        \* cross_corr_op(transformed_image) per candidate, [8][B][h][w]
    transform_forward_list,
    transform_reverse_list,
    transformed_image,   \* transform_func_forward(image_moving) of the latest candidate
    cross_corr_list,
    best_transform_indices,
    flip_rot_transform_forward,
    flip_rot_transform_reverse,
    aligned_image,       \* apply_flipping_rotation(flip_rot_transform_forward, image_moving)
    restored_image,      \* apply_flipping_rotation(flip_rot_transform_reverse, aligned_image)
    \* ---- train ----
    tpc,                 \* position of train
    strong,              \* config.strong
    n_plot_per_epoch,    \* config.n_plot_per_epoch
    train_loader,        \* the batches of the training loader, as sample ids
    val_loader,          \* the batches of the validation loader, as sample ids
    label_kind,          \* which label tensors the dataset holds
    other_label_kind,    \* the label tensors of the comparison run
    epoch_idx,
    iter_idx,
    plot_freq,
    permuted_idx,        \* np.random.permutation of the current batch (strong mode)
    batch,               \* the local tensors of the latest batch
    run,                 \* parameters, losses, best loss, checkpoint, early stopper
    other,               \* the same for the comparison run on other labels
    lr_epochs,           \* number of lr_scheduler.step() calls
    figures,             \* the figures handed to plot_side_by_side
    history,             \* per finished epoch: validation loss, decision, weights
    \* ---- eval_stitched ----
    epc,                 \* position of eval_stitched
    dataset_name,        \* the dataset_name parameter
    file_ids,            \* the file ids of the configured organ
    true_disk,           \* path -> ground-truth label map in true_folder
    pred_list,           \* sorted(glob(pred_folder + '/*.png'))
    true_list,           \* the same for true_folder, filtered by file_ids
    pair_i,              \* index of the loop over zip(pred_list, true_list)
    metric_list,
    eval_results,
    \* ---- infer ----
    ipc,                 \* position of infer
    bound,               \* the names bound among ModuleGlobals and ConfigAttributes
    checkpoint_file,     \* the weights at DiffeoMappingNet_model_save_path, if any
    test_image_paths,    \* the paths load_match_pairs returns
    test_labels_given,   \* whether test_labels is not None
    warp_predictor,      \* the weights of the model in use
    infer_iter_idx,      \* iter_idx of the loop over the dataloader
    pred_label_list,
    infer_figures,       \* the iterations that handed a figure to plot_side_by_side
    log_lines,           \* what infer, stitch_patches and test called log() with
    \* ---- the cyclic loss on its own ----
    cpc,                 \* "start", "pdb", then "done" or "BdbQuit"
    cyc_image,           \* unannotated_images of one sample, [H][W]
    cyc_forward,         \* warp_field_forward of it, [2][H][W]
    cyc_reverse,         \* warp_field_reverse of it, [2][H][W]
    cyc_locals,          \* the other locals of the iteration, once bound
    cyc_loss,            \* loss_cyclic
    \* ---- test ----
    test_pc,             \* position of test
    test_n_plot_per_epoch, \* the parameter: <<>> for None, <<n>> for n
    test_set,            \* the batches test iterates over, as sample ids
    test_bound,          \* the attributes of config that are defined
    test_checkpoint_file, \* the weights at DiffeoMappingNet_model_save_path, if any
    test_warp_predictor, \* the weights of the model in use
    test_iter_idx,       \* the iterations of the loop begun so far
    test_plot_freq,
    test_sums,           \* test_loss, test_loss_forward, test_loss_cyclic
    test_dice_ref_list,
    test_dice_seg_list

svars == <<folder_files, patch_content, spc, label_list, scan_i, base_label_list,
           base_i, label_patch_list, patch_j, label_stitched, stitched_label_list,
           disk_stitched, disk_colored, last_write, written_into>>

ovars == <<opc, image_moving, ncc_response, transform_forward_list,
           transform_reverse_list, transformed_image, cross_corr_list,
           best_transform_indices, flip_rot_transform_forward,
           flip_rot_transform_reverse, aligned_image, restored_image>>

tvars == <<tpc, strong, n_plot_per_epoch, train_loader, val_loader, label_kind,
           other_label_kind, epoch_idx, iter_idx, plot_freq, permuted_idx, batch,
           run, other, lr_epochs, figures, history>>

evars == <<epc, dataset_name, file_ids, true_disk, pred_list, true_list, pair_i,
           metric_list, eval_results>>

ivars_but_ipc == <<bound, checkpoint_file, test_image_paths, test_labels_given,
                   warp_predictor, infer_iter_idx, pred_label_list, infer_figures,
                   log_lines>>
ivars == <<ipc, ivars_but_ipc>>
ivars_but_log == <<ipc, bound, checkpoint_file, test_image_paths, test_labels_given,
                   warp_predictor, infer_iter_idx, pred_label_list, infer_figures>>

cvars == <<cpc, cyc_image, cyc_forward, cyc_reverse, cyc_locals, cyc_loss>>

xvars == <<test_pc, test_n_plot_per_epoch, test_set, test_bound, test_checkpoint_file,
           test_warp_predictor, test_iter_idx, test_plot_freq, test_sums,
           test_dice_ref_list, test_dice_seg_list>>

vars == <<svars, ovars, tvars, evars, ivars, cvars, xvars>>

\* What an action of one function leaves alone: the state of the others.
StitchFrame == UNCHANGED <<ovars, tvars, evars, ivars, cvars, xvars>>
OrientFrame == UNCHANGED <<svars, tvars, evars, ivars, cvars, xvars>>
TrainFrame == UNCHANGED <<svars, ovars, evars, ivars, cvars, xvars>>
EvalFrame == UNCHANGED <<svars, ovars, tvars, ivars, cvars, xvars>>
InferFrame == UNCHANGED <<ovars, tvars, cvars, xvars>>
CyclicFrame == UNCHANGED <<svars, ovars, tvars, evars, ivars, xvars>>
TestFrame == UNCHANGED <<svars, ovars, tvars, evars, ivars_but_log, cvars>>

----------------------------------------------------------------------------
(* Integers and Python slices *)

Min(a, b) == IF a < b THEN a ELSE b
Max(a, b) == IF a > b THEN a ELSE b

\* A slice bound x of a sequence of length n, as Python normalises it.
SliceBound(n, x) == IF x < 0 THEN Max(x + n, 0) ELSE Min(x, n)

\* The 0-based indices selected by seq[a:b] on a sequence of length n.
PySlice(n, a, b) == SliceBound(n, a) .. (SliceBound(n, b) - 1)

\* numpy assignment target[...] = source along one axis: the source extent s
\* must equal the target extent t or be 1 (broadcast).
BroadcastInto(s, t) == s = t \/ s = 1

----------------------------------------------------------------------------
(* Strings *)

AsciiOrder == <<"-", ".", "/", "0", "1", "2", "3", "4", "5", "6", "7", "8", "9",
                "H", "W", "_", "a", "b", "c", "d", "e", "f", "g", "h", "i", "j",
                "k", "l", "m", "n", "o", "p", "q", "r", "s", "t", "u", "v", "w",
                "x", "y", "z">>

Ord(c) == CHOOSE i \in 1..Len(AsciiOrder) : AsciiOrder[i] = c

Digits == <<"0", "1", "2", "3", "4", "5", "6", "7", "8", "9">>
IsDigit(c) == \E i \in 1..Len(Digits) : Digits[i] = c
DigitVal(c) == (CHOOSE i \in 1..Len(Digits) : Digits[i] = c) - 1

\* Python's str < str: lexicographic by code point, a proper prefix is smaller.
RECURSIVE StrLess(_, _)
StrLess(s, t) ==
    IF t = <<>> THEN FALSE
    ELSE IF s = <<>> THEN TRUE
    ELSE IF Head(s) # Head(t) THEN Ord(Head(s)) < Ord(Head(t))
    ELSE StrLess(Tail(s), Tail(t))

\* sorted(S) for a set of strings.
RECURSIVE Sorted(_)
Sorted(S) ==
    IF S = {} THEN <<>>
    ELSE LET m == CHOOSE x \in S : \A y \in S : y = x \/ StrLess(x, y)
         IN <<m>> \o Sorted(S \ {m})

\* sub occurs in s at 1-based position p.
OccursAt(s, sub, p) ==
    /\ p >= 1
    /\ p + Len(sub) - 1 <= Len(s)
    /\ \A k \in 1..Len(sub) : s[p + k - 1] = sub[k]

\* Python's `sub in s`.
Contains(s, sub) == \E p \in 1..(Len(s) + 1) : OccursAt(s, sub, p)

\* Python's s.find(sub): the 0-based index of the first occurrence, or -1.
StrFind(s, sub) ==
    IF Contains(s, sub)
    THEN (CHOOSE p \in 1..(Len(s) + 1) :
              /\ OccursAt(s, sub, p)
              /\ \A q \in 1..(p - 1) : ~OccursAt(s, sub, q)) - 1
    ELSE -1

\* Python's s[:idx].
StrPrefix(s, idx) == SubSeq(s, 1, SliceBound(Len(s), idx))

\* Python's s.endswith(sub).
EndsWith(s, sub) == OccursAt(s, sub, Len(s) - Len(sub) + 1)

\* Python's s.replace(old, new): every non-overlapping occurrence, left to right.
RECURSIVE ReplaceFrom(_, _, _, _)
ReplaceFrom(s, old, new, p) ==
    IF p > Len(s) THEN <<>>
    ELSE IF OccursAt(s, old, p) THEN new \o ReplaceFrom(s, old, new, p + Len(old))
    ELSE <<s[p]>> \o ReplaceFrom(s, old, new, p + 1)

Replace(s, old, new) == ReplaceFrom(s, old, new, 1)

\* Python's int(text) for an optional '-' followed by decimal digits.
RECURSIVE DigitsValue(_, _)
DigitsValue(ds, acc) ==
    IF ds = <<>> THEN acc ELSE DigitsValue(Tail(ds), 10 * acc + DigitVal(Head(ds)))

ParseInt(text) ==
    IF Head(text) = "-" THEN 0 - DigitsValue(Tail(text), 0) ELSE DigitsValue(text, 0)

\* Python's str(n) as used by the f-string f'{h}'.
RECURSIVE NatStr(_)
NatStr(n) == IF n < 10 THEN <<Digits[n + 1]>> ELSE NatStr(n \div 10) \o <<Digits[(n % 10) + 1]>>

FormatInt(n) == IF n < 0 THEN <<"-">> \o NatStr(0 - n) ELSE NatStr(n)

----------------------------------------------------------------------------
(* The regular expression 'H(-?\d+)_W(-?\d+)' and re.findall *)

\* The first position >= p of s that holds no digit.
RECURSIVE DigitRunEnd(_, _)
DigitRunEnd(s, p) ==
    IF p <= Len(s) /\ IsDigit(s[p]) THEN DigitRunEnd(s, p + 1) ELSE p

\* -?\d+ at position p: the position after the match, or 0 when there is none.
SignedIntEnd(s, p) ==
    LET q == IF p <= Len(s) /\ s[p] = "-" THEN p + 1 ELSE p
        e == DigitRunEnd(s, q)
    IN IF e > q THEN e ELSE 0

\* The match of the whole pattern starting at position p: the two groups and
\* the position after the match, or ok = FALSE.
NoMatch == [ok |-> FALSE, h |-> <<>>, w |-> <<>>, end |-> 0]

MatchAt(s, p) ==
    IF ~(p <= Len(s) /\ s[p] = "H") THEN NoMatch
    ELSE LET e1 == SignedIntEnd(s, p + 1)
         IN IF e1 = 0 \/ ~OccursAt(s, <<"_", "W">>, e1) THEN NoMatch
            ELSE LET e2 == SignedIntEnd(s, e1 + 2)
                 IN IF e2 = 0 THEN NoMatch
                    ELSE [ok |-> TRUE,
                          h |-> SubSeq(s, p + 1, e1 - 1),
                          w |-> SubSeq(s, e1 + 2, e2 - 1),
                          end |-> e2]

\* re.findall: the non-overlapping matches, scanning left to right.
RECURSIVE FindAllFrom(_, _)
FindAllFrom(s, p) ==
    IF p > Len(s) THEN <<>>
    ELSE LET m == MatchAt(s, p)
         IN IF ~m.ok THEN FindAllFrom(s, p + 1)
            ELSE <<<<m.h, m.w>>>> \o FindAllFrom(s, m.end)

FindAll(s) == FindAllFrom(s, 1)

\* Mutant: the assertion accepts any non-empty list of matches.
AssertSomeMatch(h_w) == Len(h_w) >= 1

\* extract_h_w: `assert len(h_w) == 1`, then the two integers.
AssertOneMatch(h_w) == Len(h_w) = 1

extract_h_w_ok(file_path) == AssertOneMatch(FindAll(file_path))

extract_h_w(file_path) ==
    LET h_w == FindAll(file_path)
    IN <<ParseInt(h_w[1][1]), ParseInt(h_w[1][2])>>

----------------------------------------------------------------------------
(* stitch_patches: inputs *)

imsize == 32

\* stitched_size = (CanvasH, CanvasW), the canvas of one stitching call.
CanvasH == 34
CanvasW == 40
stitched_size == <<CanvasH, CanvasW>>

\* The most patch files the folder holds.
MaxFiles == 2

PngExt == <<".", "p", "n", "g">>
Slash == <<"/">>
pred_patches == <<"p", "r", "e", "d", "_", "p", "a", "t", "c", "h", "e", "s">>
stitched_labels == <<"s", "t", "i", "t", "c", "h", "e", "d", "_", "l", "a", "b", "e", "l", "s">>
colored_stitched_labels == <<"c", "o", "l", "o", "r", "e", "d", "_">> \o stitched_labels

pred_label_folder == pred_patches
stitched_folder == Replace(pred_label_folder, pred_patches, stitched_labels)
colored_stitched_folder == Replace(pred_label_folder, pred_patches, colored_stitched_labels)

\* The file names the folder may hold.
FileNamePool ==
    { <<"a", "_", "H", "0", "_", "W", "0", ".", "p", "n", "g">>,
      <<"a", "_", "H", "0", "_", "W", "1", "6", ".", "p", "n", "g">>,
      <<"a", "_", "H", "-", "5", "_", "W", "0", ".", "p", "n", "g">>,
      <<"a", "b", "_", "H", "0", "_", "W", "1", "6", ".", "p", "n", "g">>,
      <<"a", ".", "p", "n", "g">>,
      <<"a", "_", "H", "0", "_", "W", "0", "_", "H", "1", "_", "W", "1", ".", "p", "n", "g">>,
      <<"b", "_", "H", "0", "1", "_", "W", "0", ".", "p", "n", "g">>,
      <<"a", "_", "H", "-", "3", "3", "_", "W", "0", ".", "p", "n", "g">> }

PathPool == { pred_label_folder \o Slash \o n : n \in FileNamePool }

\* The contents a patch image may have: all ones, or a ramp of grey values.
Patterns == { [kind |-> "ones", image |-> <<>>], [kind |-> "ramp", image |-> <<>>] }

\* cv2.imread(path, IMREAD_GRAYSCALE)[i, j] for an imsize x imsize patch file.
PatchPixel(path, i, j) ==
    LET content == patch_content[path]
    IN CASE content.kind = "ones" -> 1
         [] content.kind = "ramp" -> (i * imsize + j) % 256
         [] OTHER -> content.image[(i * Len(content.image)) \div imsize + 1]
                                  [(j * Len(content.image)) \div imsize + 1]

\* glob(pred_label_folder + '/*.png')
GlobPng(files) == { f \in files : EndsWith(f, PngExt) }

Rows == 0..(stitched_size[1] - 1)
Cols == 0..(stitched_size[2] - 1)
Pixels == Rows \X Cols

\* np.zeros(stitched_size, dtype=np.uint8)
ZeroCanvas == [rc \in Pixels |-> 0]

NoWrite == [ok |-> TRUE, path |-> <<>>, h |-> 0, w |-> 0, rows |-> {}, cols |-> {}]

----------------------------------------------------------------------------
(* stitch_patches: the computations of one iteration *)

\* Lines 608-612: the base label path of a patch path.
BaseLabelPath(label_path) ==
    LET hw == extract_h_w(label_path)
        h_w_string == <<"_", "H">> \o FormatInt(hw[1]) \o <<"_", "W">> \o FormatInt(hw[2])
        h_w_string_idx == StrFind(label_path, h_w_string)
    IN StrPrefix(label_path, h_w_string_idx) \o PngExt

\* Line 624: whether a patch path is selected for a base label path.
SelectedFor(base_label_path, item) ==
    Contains(item, Replace(base_label_path, PngExt, <<>>))

\* Lines 629-636.
offset_h(h) == Min(0, h)
offset_w(w) == Min(0, w)
start_h(h) == Max(0, h)
start_w(w) == Max(0, w)
\* Mutant: the negative offset is subtracted instead of added.
end_h_subtracting(h) == Min(start_h(h) + imsize - offset_h(h), stitched_size[1])
end_h(h) == Min(start_h(h) + imsize + offset_h(h), stitched_size[1])
end_w(w) == Min(start_w(w) + imsize + offset_w(w), stitched_size[2])
actual_height(h) == end_h(h) - start_h(h)
actual_width(w) == end_w(w) - start_w(w)

\* Mutant: the crop of the patch ignores the negative offset.
NewPatchRowsUncorrected(h) == PySlice(imsize, 0, actual_height(h))

\* Line 641: the rows and columns of label_patch that new_patch holds.
NewPatchRows(h) == PySlice(imsize, 0 - offset_h(h), 0 - offset_h(h) + actual_height(h))
NewPatchCols(w) == PySlice(imsize, 0 - offset_w(w), 0 - offset_w(w) + actual_width(w))

\* Lines 642 and 648: the rows and columns of label_stitched that are assigned.
TargetRows(h) == PySlice(stitched_size[1], start_h(h), end_h(h))
TargetCols(w) == PySlice(stitched_size[2], start_w(w), end_w(w))

\* Lines 646-648 raise ValueError unless new_patch broadcasts into the target.
ShapesAgree(h, w) ==
    /\ BroadcastInto(Cardinality(NewPatchRows(h)), Cardinality(TargetRows(h)))
    /\ BroadcastInto(Cardinality(NewPatchCols(w)), Cardinality(TargetCols(w)))

\* The index of the source that lands on target index t.
SourceIndex(src, tgt, t) ==
    LET s0 == CHOOSE x \in src : \A y \in src : x <= y
        t0 == CHOOSE x \in tgt : \A y \in tgt : x <= y
    IN IF Cardinality(src) = 1 THEN s0 ELSE s0 + (t - t0)

\* Mutant: line 647 instead of line 648, the maximum of old and new.
MaxCombined(old_value, new_value) == Max(old_value, new_value)

\* Line 648 assigns new_patch (line 647, the maximum, is commented out).
AssignedValue(old_value, new_value) == new_value

\* label_stitched after lines 640-648 for one patch.
StitchedAfter(canvas, path) ==
    LET hw == extract_h_w(path)
        sr == NewPatchRows(hw[1])
        sc == NewPatchCols(hw[2])
        tr == TargetRows(hw[1])
        tc == TargetCols(hw[2])
    IN [rc \in Pixels |->
          IF rc[1] \in tr /\ rc[2] \in tc
          THEN AssignedValue(canvas[rc],
                             PatchPixel(path, SourceIndex(sr, tr, rc[1]),
                                              SourceIndex(sc, tc, rc[2])))
          ELSE canvas[rc]]

\* Lines 652 and 658.
SavePath(base_label_path) == Replace(base_label_path, pred_label_folder, stitched_folder)
ColorSavePath(base_label_path) ==
    Replace(base_label_path, pred_label_folder, colored_stitched_folder)

----------------------------------------------------------------------------
(* stitch_patches: the state machine *)

StitchInit ==
    /\ folder_files \in { S \in SUBSET PathPool : Cardinality(S) <= MaxFiles }
    /\ patch_content \in [folder_files -> Patterns]
    /\ spc = "start"
    /\ label_list = <<>>
    /\ scan_i = 1
    /\ base_label_list = <<>>
    /\ base_i = 1
    /\ label_patch_list = <<>>
    /\ patch_j = 1
    /\ label_stitched = ZeroCanvas
    /\ stitched_label_list = <<>>
    /\ disk_stitched = <<>>
    /\ disk_colored = <<>>
    /\ last_write = NoWrite
    /\ written_into = {}

\* Line 603.
StartStitch ==
    /\ StitchFrame
    /\ spc = "start"
    /\ label_list' = Sorted(GlobPng(folder_files))
    /\ scan_i' = 1
    /\ base_label_list' = <<>>
    /\ spc' = "scan"
    /\ UNCHANGED <<folder_files, patch_content, base_i, label_patch_list, patch_j,
                   label_stitched, stitched_label_list, disk_stitched, disk_colored,
                   last_write, written_into>>

\* Lines 606-616, one iteration whose assertion holds.
ScanFile ==
    /\ StitchFrame
    /\ spc = "scan"
    /\ scan_i <= Len(label_list)
    /\ extract_h_w_ok(label_list[scan_i])
    /\ LET base_label_path == BaseLabelPath(label_list[scan_i])
       IN base_label_list' =
            IF \E k \in 1..Len(base_label_list) : base_label_list[k] = base_label_path
            THEN base_label_list
            ELSE Append(base_label_list, base_label_path)
    /\ scan_i' = scan_i + 1
    /\ UNCHANGED <<folder_files, patch_content, spc, label_list, base_i,
                   label_patch_list, patch_j, label_stitched, stitched_label_list,
                   disk_stitched, disk_colored, last_write, written_into>>

\* Line 583: the assertion of extract_h_w fails.
ScanAbort ==
    /\ StitchFrame
    /\ spc = "scan"
    /\ scan_i <= Len(label_list)
    /\ ~extract_h_w_ok(label_list[scan_i])
    /\ spc' = "AssertionError"
    /\ UNCHANGED <<folder_files, patch_content, label_list, scan_i, base_label_list,
                   base_i, label_patch_list, patch_j, label_stitched,
                   stitched_label_list, disk_stitched, disk_colored, last_write,
                   written_into>>

\* The first loop ends; line 619.
ScanDone ==
    /\ StitchFrame
    /\ spc = "scan"
    /\ scan_i > Len(label_list)
    /\ spc' = "bases"
    /\ base_i' = 1
    /\ stitched_label_list' = <<>>
    /\ UNCHANGED <<folder_files, patch_content, label_list, scan_i, base_label_list,
                   label_patch_list, patch_j, label_stitched, disk_stitched,
                   disk_colored, last_write, written_into>>

\* Lines 621-624.
BeginGroup ==
    /\ StitchFrame
    /\ spc = "bases"
    /\ base_i <= Len(base_label_list)
    /\ label_stitched' = ZeroCanvas
    /\ label_patch_list' =
         SelectSeq(label_list, LAMBDA item : SelectedFor(base_label_list[base_i], item))
    /\ patch_j' = 1
    /\ spc' = "patch"
    /\ UNCHANGED <<folder_files, patch_content, label_list, scan_i, base_label_list,
                   base_i, stitched_label_list, disk_stitched, disk_colored,
                   last_write, written_into>>

\* Lines 626-648, one iteration that raises nothing.
WritePatch ==
    /\ StitchFrame
    /\ spc = "patch"
    /\ patch_j <= Len(label_patch_list)
    /\ LET path == label_patch_list[patch_j]
           hw == extract_h_w(path)
       IN /\ ShapesAgree(hw[1], hw[2])
          /\ label_stitched' = StitchedAfter(label_stitched, path)
          /\ last_write' = [ok |-> TRUE, path |-> path, h |-> hw[1], w |-> hw[2],
                            rows |-> TargetRows(hw[1]), cols |-> TargetCols(hw[2])]
          /\ written_into' = written_into \cup {<<path, base_label_list[base_i]>>}
    /\ patch_j' = patch_j + 1
    /\ UNCHANGED <<folder_files, patch_content, spc, label_list, scan_i,
                   base_label_list, base_i, label_patch_list, stitched_label_list,
                   disk_stitched, disk_colored>>

\* Lines 646-648 raise ValueError: the shapes of new_patch and the target differ.
WriteAbort ==
    /\ StitchFrame
    /\ spc = "patch"
    /\ patch_j <= Len(label_patch_list)
    /\ LET path == label_patch_list[patch_j]
           hw == extract_h_w(path)
       IN /\ ~ShapesAgree(hw[1], hw[2])
          /\ last_write' = [ok |-> FALSE, path |-> path, h |-> hw[1], w |-> hw[2],
                            rows |-> {}, cols |-> {}]
    /\ spc' = "ValueError"
    /\ UNCHANGED <<folder_files, patch_content, label_list, scan_i, base_label_list,
                   base_i, label_patch_list, patch_j, label_stitched,
                   stitched_label_list, disk_stitched, disk_colored, written_into>>

\* Lines 650-659: the canvas of the group is kept and written to disk twice.
SaveCanvas ==
    /\ StitchFrame
    /\ spc = "patch"
    /\ patch_j > Len(label_patch_list)
    /\ stitched_label_list' = Append(stitched_label_list, label_stitched)
    /\ disk_stitched' =
         (SavePath(base_label_list[base_i]) :> label_stitched) @@ disk_stitched
    /\ disk_colored' =
         (ColorSavePath(base_label_list[base_i]) :>
              { rc \in Pixels : label_stitched[rc] = 1 }) @@ disk_colored
    /\ base_i' = base_i + 1
    /\ spc' = "bases"
    /\ UNCHANGED <<folder_files, patch_content, label_list, scan_i, base_label_list,
                   label_patch_list, patch_j, label_stitched, last_write, written_into>>

\* Lines 661-663: the numbers of patches and of canvases are logged, the
\* canvases and the folder returned.
DoneStitching(labels, stitched) ==
    [what |-> "done stitching", value |-> <<Len(labels), Len(stitched)>>]
FinishStitch ==
    /\ UNCHANGED <<ovars, tvars, evars, ivars_but_log, cvars, xvars>>
    /\ spc = "bases"
    /\ base_i > Len(base_label_list)
    /\ log_lines' = Append(log_lines, DoneStitching(label_list, stitched_label_list))
    /\ spc' = "done"
    /\ UNCHANGED <<folder_files, patch_content, label_list, scan_i, base_label_list,
                   base_i, label_patch_list, patch_j, label_stitched,
                   stitched_label_list, disk_stitched, disk_colored, last_write,
                   written_into>>

----------------------------------------------------------------------------
(* flip_rot, predict_flipping_rotation, apply_flipping_rotation *)

\* Images are ImgSize x ImgSize; a batch holds BatchSize of them.  The channel
\* axis is left out: flip and rot90 act on axes 2 and 3 of [B, C, H, W] only.
ImgSize == 2
BatchSize == 2

\* The largest value of a cross-correlation response.
MaxScore == 2

Matrix(n, V) == [1..n -> [1..n -> V]]

\* torch.flip(image, dims=(2,)): axis 2 of [B, C, H, W] is the row axis H.
FlipDim2(m) == [i \in 1..Len(m) |-> m[Len(m) + 1 - i]]

\* torch.rot90(image, k, dims=(2, 3)).
\* k = 1 is flip(3) then transpose(2, 3); k = 3 is flip(2) then transpose(2, 3).
Rot90(m, k) ==
    LET H == Len(m)
        W == Len(m[1])
    IN CASE k = 0 -> m
         [] k = 1 -> [i \in 1..W |-> [j \in 1..H |-> m[j][W + 1 - i]]]
         [] k = 2 -> [i \in 1..H |-> [j \in 1..W |-> m[H + 1 - i][W + 1 - j]]]
         [] k = 3 -> [i \in 1..W |-> [j \in 1..H |-> m[H + 1 - j][i]]]

\* flip_rot on one [H][W] slice; t = [fliplr, rot_angle].
flip_rot(image, t) ==
    LET flipped == IF t.fliplr THEN FlipDim2(image) ELSE image
    IN CASE t.rot_angle = 90 -> Rot90(flipped, 1)
         [] t.rot_angle = 180 -> Rot90(flipped, 2)
         [] t.rot_angle = 270 -> Rot90(flipped, 3)
         [] t.rot_angle = 0 -> flipped

\* flip_rot on a batch.
flip_rot_batch(images, t) == [b \in 1..Len(images) |-> flip_rot(images[b], t)]

\* Lines 134-136: the zipped enumerations.
FlipForward == <<FALSE, TRUE>>
FlipReverse == <<FALSE, TRUE>>
RotForward == <<0, 90, 180, 270>>
RotReverse == <<0, 270, 180, 90>>
NumCandidates == Len(FlipForward) * Len(RotForward)

\* The k-th pass of the nested loops (k from 1): outer index over the flips,
\* inner index over the rotations.
OuterIndex(k) == ((k - 1) \div Len(RotForward)) + 1
InnerIndex(k) == ((k - 1) % Len(RotForward)) + 1

\* Lines 138-139: the two partial applications of flip_rot.
transform_func_forward(k) ==
    [fliplr |-> FlipForward[OuterIndex(k)], rot_angle |-> RotForward[InnerIndex(k)]]
transform_func_reverse(k) ==
    [fliplr |-> FlipReverse[OuterIndex(k)], rot_angle |-> RotReverse[InnerIndex(k)]]

\* torch.max(t, dim=1)[0] on a [B][h][w] tensor: the maximum over the rows.
SetMax(S) == CHOOSE x \in S : \A y \in S : y <= x
MaxDim1(t) ==
    [b \in 1..Len(t) |->
        [j \in 1..Len(t[b][1]) |-> SetMax({ t[b][i][j] : i \in 1..Len(t[b]) })]]

\* torch.max(u, dim=1)[0] on the [B][w] result: the maximum over the columns.
MaxDim1Again(u) == [b \in 1..Len(u) |-> SetMax({ u[b][j] : j \in 1..Len(u[b]) })]

\* Line 145: the score of one candidate for every batch element.
CandidateScore(response) == MaxDim1Again(MaxDim1(response))

\* Mutant: the last index of the maximum.
ArgmaxLast(scores) ==
    CHOOSE k \in 1..Len(scores) :
        /\ \A y \in 1..Len(scores) : scores[y] <= scores[k]
        /\ \A y \in (k + 1)..Len(scores) : scores[y] < scores[k]

\* cross_corr.argmax(0) for one batch element: the first index of the maximum
\* (torch.argmax returns the index of the first maximal value).
Argmax0(scores) ==
    CHOOSE k \in 1..Len(scores) :
        /\ \A y \in 1..Len(scores) : scores[y] <= scores[k]
        /\ \A y \in 1..(k - 1) : scores[y] < scores[k]

\* Line 152 on the stacked [8][B] scores.
BestIndices(cross_corr) ==
    [b \in 1..Len(cross_corr[1]) |->
        Argmax0([k \in 1..Len(cross_corr) |-> cross_corr[k][b]])]

\* apply_flipping_rotation (lines 159-163).
apply_flipping_rotation(transform, image) ==
    [batch_idx \in 1..Len(transform) |-> flip_rot(image[batch_idx], transform[batch_idx])]

\* Inputs.  A generic image with pairwise different pixels, shifted per element.
GenericImage(b) == [i \in 1..ImgSize |-> [j \in 1..ImgSize |-> (i - 1) * ImgSize + j + b]]
GenericBatch == [b \in 1..BatchSize |-> GenericImage(b)]

\* Batches built from one binary image: element b holds x with b - 1 added.
BatchOf(x) ==
    [b \in 1..BatchSize |-> [i \in 1..ImgSize |-> [j \in 1..ImgSize |-> x[i][j] + b - 1]]]

\* The responses of the external NCC operator are inputs: a 2 x 2 response map
\* per candidate and batch element whose largest entry is MaxScore for the
\* candidates c1 and c2 (shifted by the element index) and smaller elsewhere.
PeakOf(c, b) == ((c - 1 + (b - 1) * 3) % NumCandidates) + 1
ResponseValue(c1, c2, k, b) ==
    IF k = PeakOf(c1, b) \/ k = PeakOf(c2, b) THEN MaxScore ELSE k % MaxScore
ResponseMap(c1, c2, k, b) ==
    LET v == ResponseValue(c1, c2, k, b)
    IN IF k % 2 = 0 THEN <<<<0, v>>, <<0, 0>>>> ELSE <<<<0, 0>>, <<v, 0>>>>
Responses(c1, c2) ==
    [k \in 1..NumCandidates |-> [b \in 1..BatchSize |-> ResponseMap(c1, c2, k, b)]]

OrientInit ==
    /\ \/ /\ image_moving \in { BatchOf(x) : x \in Matrix(ImgSize, {0, 1}) }
          /\ ncc_response = Responses(1, 1)
       \/ /\ image_moving = GenericBatch
          /\ ncc_response \in { Responses(c1, c2) : c1, c2 \in 1..NumCandidates }
    /\ opc = "start"
    /\ transform_forward_list = <<>>
    /\ transform_reverse_list = <<>>
    /\ transformed_image = <<>>
    /\ cross_corr_list = <<>>
    /\ best_transform_indices = <<>>
    /\ flip_rot_transform_forward = <<>>
    /\ flip_rot_transform_reverse = <<>>
    /\ aligned_image = <<>>
    /\ restored_image = <<>>

\* Lines 128-132.
PredictStart ==
    /\ OrientFrame
    /\ opc = "start"
    /\ opc' = "enumerate"
    /\ cross_corr_list' = <<>>
    /\ transform_forward_list' = <<>>
    /\ transform_reverse_list' = <<>>
    /\ UNCHANGED <<image_moving, ncc_response, transformed_image,
                   best_transform_indices, flip_rot_transform_forward,
                   flip_rot_transform_reverse, aligned_image, restored_image>>

\* Lines 134-145, one pass of the nested loops.
EnumerateCandidate ==
    /\ OrientFrame
    /\ opc = "enumerate"
    /\ Len(cross_corr_list) < NumCandidates
    /\ LET k == Len(cross_corr_list) + 1
       IN /\ transform_forward_list' =
               Append(transform_forward_list, transform_func_forward(k))
          /\ transform_reverse_list' =
               Append(transform_reverse_list, transform_func_reverse(k))
          /\ transformed_image' = flip_rot_batch(image_moving, transform_func_forward(k))
          /\ cross_corr_list' = Append(cross_corr_list, CandidateScore(ncc_response[k]))
    /\ UNCHANGED <<opc, image_moving, ncc_response, best_transform_indices,
                   flip_rot_transform_forward, flip_rot_transform_reverse,
                   aligned_image, restored_image>>

\* Lines 147-157.
SelectBest ==
    /\ OrientFrame
    /\ opc = "enumerate"
    /\ Len(cross_corr_list) = NumCandidates
    /\ best_transform_indices' = BestIndices(cross_corr_list)
    /\ flip_rot_transform_forward' =
         [b \in 1..BatchSize |-> transform_forward_list[BestIndices(cross_corr_list)[b]]]
    /\ flip_rot_transform_reverse' =
         [b \in 1..BatchSize |-> transform_reverse_list[BestIndices(cross_corr_list)[b]]]
    /\ opc' = "returned"
    /\ UNCHANGED <<image_moving, ncc_response, transform_forward_list,
                   transform_reverse_list, transformed_image, cross_corr_list,
                   aligned_image, restored_image>>

\* apply_flipping_rotation with the returned forward transforms, then with the
\* returned reverse transforms on its result.
ApplyForwardReverse ==
    /\ OrientFrame
    /\ opc = "returned"
    /\ aligned_image' = apply_flipping_rotation(flip_rot_transform_forward, image_moving)
    /\ restored_image' =
         apply_flipping_rotation(flip_rot_transform_reverse,
             apply_flipping_rotation(flip_rot_transform_forward, image_moving))
    /\ opc' = "applied"
    /\ UNCHANGED <<image_moving, ncc_response, transform_forward_list,
                   transform_reverse_list, transformed_image, cross_corr_list,
                   best_transform_indices, flip_rot_transform_forward,
                   flip_rot_transform_reverse>>

OrientIdle ==
    /\ opc = "idle"
    /\ image_moving = <<>>
    /\ ncc_response = <<>>
    /\ transform_forward_list = <<>>
    /\ transform_reverse_list = <<>>
    /\ transformed_image = <<>>
    /\ cross_corr_list = <<>>
    /\ best_transform_indices = <<>>
    /\ flip_rot_transform_forward = <<>>
    /\ flip_rot_transform_reverse = <<>>
    /\ aligned_image = <<>>
    /\ restored_image = <<>>

\* stitch_patches is not running: none of its locals is bound.
StitchNotRunning ==
    /\ spc = "idle"
    /\ label_list = <<>>
    /\ scan_i = 1
    /\ base_label_list = <<>>
    /\ base_i = 1
    /\ label_patch_list = <<>>
    /\ patch_j = 1
    /\ label_stitched = <<>>
    /\ stitched_label_list = <<>>
    /\ disk_colored = <<>>
    /\ last_write = NoWrite
    /\ written_into = {}

StitchAtRest ==
    /\ folder_files = {}
    /\ patch_content = <<>>
    /\ StitchNotRunning

StitchIdle == StitchAtRest /\ disk_stitched = <<>>

----------------------------------------------------------------------------
(* train: numbers, tensors and the collaborators outside this file *)

\* config.max_epochs and config.patience.
MaxEpochs == 3
Patience == 1

\* A loss is a non-negative rational <<numerator, denominator>> in lowest
\* terms; np.inf is <<1, 0>>.
RECURSIVE GCD(_, _)
GCD(a, b) == IF b = 0 THEN a ELSE GCD(b, a % b)
Rat(n, d) == LET g == GCD(n, d) IN IF g = 0 THEN <<0, 1>> ELSE <<n \div g, d \div g>>
RatZero == <<0, 1>>
Inf == <<1, 0>>
RatAdd(a, b) == Rat(a[1] * b[2] + b[1] * a[2], a[2] * b[2])
RatTimes(a, k) == Rat(a[1] * k, a[2])
RatOver(a, k) == Rat(a[1], a[2] * k)
RatLess(a, b) == a[1] * b[2] < b[1] * a[2]

RECURSIVE SumTo(_, _)
SumTo(f, n) == IF n = 0 THEN 0 ELSE f[n] + SumTo(f, n - 1)

\* A tensor computed once and held as a value.
Held(t) == CHOOSE v \in {t} : v = v

\* The dataset (utils.prepare_dataset): sample s holds two views of
\* ImgSize x ImgSize pixels with one channel, view 0 showing pattern s and
\* view 1 showing the next pattern.
NumPatterns == 5
ImagePattern(p) ==
    [i \in 1..ImgSize |-> [j \in 1..ImgSize |->
        CASE p = 1 -> IF i = 1 THEN 1 ELSE 0
          [] p = 2 -> IF j = 1 THEN 1 ELSE 0
          [] p = 3 -> IF i = ImgSize THEN 1 ELSE 0
          [] p = 4 -> IF j = ImgSize THEN 1 ELSE 0
          [] OTHER -> IF (i + j) % 2 = 0 THEN 1 ELSE 0]]
ImageView(s, v) == IF v = 0 THEN ImagePattern(s) ELSE ImagePattern((s % NumPatterns) + 1)

\* The label tensors a dataset can hold.  "mask" and "inverse" are integer
\* masks over {0, 1}; "distance" is floating point; "stray" is an integer
\* tensor whose view 0 holds the value 2; "overflow" is an integer tensor
\* whose views both hold the value 2.
LabelKinds == <<"mask", "inverse", "distance", "stray", "overflow">>
IsFloatingPoint(kind) == kind = "distance"
LabelView(kind, s, v) ==
    LET img == ImageView(s, v)
    IN [i \in 1..ImgSize |-> [j \in 1..ImgSize |->
        CASE kind = "mask" -> img[i][j]
          [] kind = "inverse" -> 1 - img[i][j]
          [] kind = "distance" -> img[i][j] * (i + j)
          [] kind = "stray" -> IF v = 0 THEN 2 * img[i][j] ELSE img[i][j]
          [] OTHER -> 2 * img[i][j]]]
KindAfter(kind) ==
    LET k == CHOOSE n \in 1..Len(LabelKinds) : LabelKinds[n] = kind
    IN LabelKinds[(k % Len(LabelKinds)) + 1]

\* Loaders: sequences of batches, a batch a sequence of sample ids.
TrainLoaders == { << <<1, 2>>, <<3>> >>, << <<4, 5>> >>, << >> }
ValLoaders == { << <<2, 3>>, <<5>> >>, << <<1, 4>> >>, << >> }
DatasetLen(loader) == SumTo([b \in 1..Len(loader) |-> Len(loader[b])], Len(loader))

\* The parameters of the warp predictor: one offset per output channel.
Clip(x) == IF x < -1 THEN -1 ELSE IF x > 1 THEN 1 ELSE x
InitialParameters == { <<0, 0, 0, 0>>, <<1, -1, 1, 0>> }

\* torch.cat([annotated_images, unannotated_images], dim=1): [B][2][H][W].
Cat(first, second) == [b \in 1..Len(first) |-> <<first[b], second[b]>>]

\* Displacements are written in units of 1/FlowUnit of a pixel: a field
\* value of FlowUnit moves the sampling position by one pixel, a value of 1
\* by half a pixel.
FlowUnit == 2

\* The warp predictor (model.unet.UNet, 4 output channels): each output
\* channel is its offset plus the difference of the two input channels, with
\* the sign turned for the last two channels, kept within -1..1 pixel.
WarpPredictor(theta, x) ==
    Held([b \in 1..Len(x) |-> [c \in 1..4 |-> [i \in 1..ImgSize |-> [j \in 1..ImgSize |->
        FlowUnit *
        Clip(theta[c] + (IF c <= 2 THEN 1 ELSE -1) * (x[b][1][i][j] - x[b][2][i][j]))]]]])

\* warp_predicted[:, :2, ...] and warp_predicted[:, 2:, ...].
FirstTwoChannels(t) == [b \in 1..Len(t) |-> <<t[b][1], t[b][2]>>]
LastTwoChannels(t) == [b \in 1..Len(t) |-> <<t[b][3], t[b][4]>>]

\* Bilinear interpolation of one channel at the position (pr, pc), given in
\* units of 1/FlowUnit of a pixel: along the columns between the two
\* neighbouring pixels of a row, then along the rows between the two
\* neighbouring rows, each neighbour weighted by its closeness and a
\* neighbour of weight zero not read; neighbours outside the image are
\* replaced by the nearest pixel of its edge. The value is FlowUnit * FlowUnit
\* times the interpolated one.
ClampIndex(i) == Max(1, Min(ImgSize, i))
BilinearSum(channel, pr, pc) ==
    LET r0 == pr \div FlowUnit
        c0 == pc \div FlowUnit
        fr == pr % FlowUnit
        fc == pc % FlowUnit
        AlongRow(r) ==
            IF fc = 0
            THEN FlowUnit * channel[r][ClampIndex(c0)]
            ELSE (FlowUnit - fc) * channel[r][ClampIndex(c0)]
                 + fc * channel[r][ClampIndex(c0 + 1)]
    IN IF fr = 0
       THEN FlowUnit * AlongRow(ClampIndex(r0))
       ELSE (FlowUnit - fr) * AlongRow(ClampIndex(r0)) + fr * AlongRow(ClampIndex(r0 + 1))

\* The quotient of a division that leaves no remainder; no value otherwise.
ExactQuotient(n, d) == CHOOSE k \in {n \div d} : k * d = n

\* A warper that reads the two channels of the field the other way round,
\* sampling at (r + flow[1,r,c], c + flow[0,r,c]).
WarperChannelsSwapped(src, flow) ==
    Held([b \in 1..Len(src) |-> [i \in 1..ImgSize |-> [j \in 1..ImgSize |->
        ExactQuotient(BilinearSum(src[b], FlowUnit * i + flow[b][2][i][j],
                                          FlowUnit * j + flow[b][1][i][j]),
                      FlowUnit * FlowUnit)]]])

\* The warper (registration.spatial_transformer.SpatialTransformer): the
\* output pixel (r, c) samples the input at (r + flow[0,r,c], c + flow[1,r,c])
\* by bilinear interpolation, positions outside the image clamped to its edge.
Warper(src, flow) ==
    Held([b \in 1..Len(src) |-> [i \in 1..ImgSize |-> [j \in 1..ImgSize |->
        ExactQuotient(BilinearSum(src[b], FlowUnit * i + flow[b][1][i][j],
                                          FlowUnit * j + flow[b][2][i][j]),
                      FlowUnit * FlowUnit)]]])

\* torch.nn.MSELoss(): the mean of the squared differences over all elements.
SquaredError(a, b) ==
    SumTo([e \in 1..Len(a) |->
        SumTo([i \in 1..ImgSize |->
            SumTo([j \in 1..ImgSize |-> (a[e][i][j] - b[e][i][j]) * (a[e][i][j] - b[e][i][j])],
                  ImgSize)], ImgSize)], Len(a))
mse_loss(a, b) == Rat(SquaredError(a, b), Len(a) * ImgSize * ImgSize)

\* (x > 0.5).float() and x.max() on a batch of integer-valued tensors.
Threshold(t) == Held([b \in 1..Len(t) |-> [i \in 1..ImgSize |-> [j \in 1..ImgSize |->
                    IF 2 * t[b][i][j] > 1 THEN 1 ELSE 0]]])
TensorMax(t) == SetMax({ t[b][i][j] : b \in 1..Len(t), i \in 1..ImgSize, j \in 1..ImgSize })

\* EarlyStopping(mode='min', patience=config.patience, percentage=False) of
\* utils.early_stop: step(metrics) counts the epochs that did not go below the
\* best value so far and signals stop once the count reaches the patience.
NotYet == <<>>
NewEarlyStopping == [best |-> NotYet, num_bad_epochs |-> 0]
EarlyStoppingStep(es, metrics) ==
    IF Patience = 0 THEN [state |-> es, stop |-> FALSE]
    ELSE IF es.best = NotYet
    THEN [state |-> [best |-> metrics, num_bad_epochs |-> 0], stop |-> FALSE]
    ELSE LET better == RatLess(metrics, es.best)
             bad == IF better THEN 0 ELSE es.num_bad_epochs + 1
         IN [state |-> [best |-> IF better THEN metrics ELSE es.best,
                        num_bad_epochs |-> bad],
             stop |-> bad >= Patience]

----------------------------------------------------------------------------
(* train: the computations of one batch and of the end of an epoch *)

\* All orders of the indices of a batch of n elements (np.random.permutation).
BatchPermutations(n) == { p \in [1..n -> 1..n] : \A a, b \in 1..n : p[a] = p[b] => a = b }

\* Lines 209-222 (347-360 in validation): view 0 is the unannotated side, view
\* 1 the annotated side, taken from the same element in weak mode and from
\* element permuted_idx[b] in strong mode.
BatchViewsLabelsUnpermuted(ids, perm, kind) ==
    Held([unannotated_images |-> [b \in 1..Len(ids) |-> ImageView(ids[b], 0)],
          unannotated_labels |-> [b \in 1..Len(ids) |-> LabelView(kind, ids[b], 0)],
          annotated_images |->
              [b \in 1..Len(ids) |-> ImageView(ids[IF strong THEN perm[b] ELSE b], 1)],
          annotated_labels |-> [b \in 1..Len(ids) |-> LabelView(kind, ids[b], 1)]])
BatchViews(ids, perm, kind) ==
    Held(IF ~strong
    THEN [unannotated_images |-> [b \in 1..Len(ids) |-> ImageView(ids[b], 0)],
          unannotated_labels |-> [b \in 1..Len(ids) |-> LabelView(kind, ids[b], 0)],
          annotated_images |-> [b \in 1..Len(ids) |-> ImageView(ids[b], 1)],
          annotated_labels |-> [b \in 1..Len(ids) |-> LabelView(kind, ids[b], 1)]]
    ELSE [unannotated_images |-> [b \in 1..Len(ids) |-> ImageView(ids[b], 0)],
          unannotated_labels |-> [b \in 1..Len(ids) |-> LabelView(kind, ids[b], 0)],
          annotated_images |-> [b \in 1..Len(ids) |-> ImageView(ids[perm[b]], 1)],
          annotated_labels |-> [b \in 1..Len(ids) |-> LabelView(kind, ids[perm[b]], 1)]])

\* Line 228, and the assertion of line 237 (375 in validation).
LabelIsBinary(kind) == ~IsFloatingPoint(kind)
LabelAssertion(views, kind) ==
    LabelIsBinary(kind) => TensorMax(views.annotated_labels) \in {0, 1}

\* Lines 236-266 of the training phase: the tensors of one iteration.
TrainLocals(theta, views, kind) ==
    LET label_is_binary == LabelIsBinary(kind)
        annotated_labels ==
            IF label_is_binary THEN Threshold(views.annotated_labels)
            ELSE views.annotated_labels
        unannotated_labels ==
            IF label_is_binary THEN Threshold(views.unannotated_labels)
            ELSE views.unannotated_labels
        warp_predicted ==
            WarpPredictor(theta, Cat(views.annotated_images, views.unannotated_images))
        warp_field_forward == FirstTwoChannels(warp_predicted)
        warp_field_reverse == LastTwoChannels(warp_predicted)
        images_U2A == Warper(views.unannotated_images, warp_field_forward)
        images_U2A_A2U == Warper(images_U2A, warp_field_reverse)
        warped_labels == Warper(annotated_labels, warp_field_reverse)
    IN [label_is_binary |-> label_is_binary,
        unannotated_images |-> views.unannotated_images,
        annotated_images |-> views.annotated_images,
        unannotated_labels |-> unannotated_labels,
        annotated_labels |-> annotated_labels,
        warp_field_forward |-> warp_field_forward,
        warp_field_reverse |-> warp_field_reverse,
        images_U2A |-> images_U2A,
        images_U2A_A2U |-> images_U2A_A2U,
        labels_A2U |-> IF label_is_binary THEN Threshold(warped_labels) ELSE warped_labels]

\* Lines 300-302.
TrainLossForward(loc) == mse_loss(loc.annotated_images, loc.images_U2A)
\* Mutant: the cyclic term compares with the once-warped image.
TrainLossCyclicOfForwardWarp(loc) == mse_loss(loc.unannotated_images, loc.images_U2A)
TrainLossCyclic(loc) == mse_loss(loc.unannotated_images, loc.images_U2A_A2U)
\* Mutant: a label term added to the loss.
TrainLossWithLabelTerm(loc) ==
    RatAdd(RatAdd(TrainLossForward(loc), TrainLossCyclic(loc)),
           mse_loss(loc.unannotated_labels, loc.labels_A2U))
TrainLoss(loc) == RatAdd(TrainLossForward(loc), TrainLossCyclic(loc))

\* Lines 374-393 of the validation phase: the tensors of one iteration.
ValLocals(theta, views, kind) ==
    LET label_is_binary == LabelIsBinary(kind)
        annotated_labels ==
            IF label_is_binary THEN Threshold(views.annotated_labels)
            ELSE views.annotated_labels
        unannotated_labels ==
            IF label_is_binary THEN Threshold(views.unannotated_labels)
            ELSE views.unannotated_labels
        warp_predicted ==
            WarpPredictor(theta, Cat(views.annotated_images, views.unannotated_images))
        warp_field_forward == FirstTwoChannels(warp_predicted)
        warp_field_reverse == LastTwoChannels(warp_predicted)
        images_U2A == Warper(views.unannotated_images, warp_field_forward)
        images_U2A_A2U == Warper(images_U2A, warp_field_reverse)
        warped_labels == Warper(annotated_labels, warp_field_reverse)
    IN [label_is_binary |-> label_is_binary,
        unannotated_images |-> views.unannotated_images,
        annotated_images |-> views.annotated_images,
        unannotated_labels |-> unannotated_labels,
        annotated_labels |-> annotated_labels,
        warp_field_forward |-> warp_field_forward,
        warp_field_reverse |-> warp_field_reverse,
        images_U2A |-> images_U2A,
        images_U2A_A2U |-> images_U2A_A2U,
        labels_A2U |-> IF label_is_binary THEN Threshold(warped_labels) ELSE warped_labels]

\* Lines 429-431.
ValLossForward(loc) == mse_loss(loc.annotated_images, loc.images_U2A)
\* Mutant: the cycle compared with the annotated image.
ValLossCyclicAgainstAnnotated(loc) == mse_loss(loc.annotated_images, loc.images_U2A_A2U)
ValLossCyclic(loc) == mse_loss(loc.unannotated_images, loc.images_U2A_A2U)
ValLoss(loc) == RatAdd(ValLossForward(loc), ValLossCyclic(loc))

\* Lines 44-48, l1: np.linalg.norm(im1.flatten() - im2.flatten(), ord=1), the
\* sum of the absolute differences.
Abs(x) == IF x < 0 THEN -x ELSE x
l1(im1, im2) ==
    Rat(SumTo([i \in 1..ImgSize |->
            SumTo([j \in 1..ImgSize |-> Abs(im1[i][j] - im2[i][j])], ImgSize)], ImgSize),
        1)

\* dice_coeff of utils.metrics on two masks: twice the size of the
\* intersection over the sum of the sizes, 1 for two empty masks.
dice_coeff(im1, im2) ==
    LET Count(m) == Cardinality({ ij \in (1..ImgSize) \X (1..ImgSize) : m[ij[1]][ij[2]] > 0 })
        both == Cardinality({ ij \in (1..ImgSize) \X (1..ImgSize) :
                                im1[ij[1]][ij[2]] > 0 /\ im2[ij[1]][ij[2]] > 0 })
    IN IF Count(im1) + Count(im2) = 0 THEN <<1, 1>>
       ELSE Rat(2 * both, Count(im1) + Count(im2))

\* Lines 268-281 (395-409 in validation): the metric of the label type, on
\* every element of the batch, before registration and after.
Metric(label_is_binary, im1, im2) ==
    IF label_is_binary THEN dice_coeff(im1, im2) ELSE l1(im1, im2)
BatchMetricRef(loc) ==
    [i \in 1..Len(loc.labels_A2U) |->
        Metric(loc.label_is_binary, loc.annotated_labels[i], loc.unannotated_labels[i])]
BatchMetricSeg(loc) ==
    [i \in 1..Len(loc.labels_A2U) |->
        Metric(loc.label_is_binary, loc.labels_A2U[i], loc.unannotated_labels[i])]

\* Lines 308-310, optimizer.zero_grad(); loss.backward(); optimizer.step():
\* the step is a function of the parameters and of the loss of this batch as
\* a function of the parameters.  It moves one offset by one, to the first
\* neighbour with the least loss.
OptimizerStep(theta, views, kind) ==
    LET Neighbour(k) ==
            [theta EXCEPT ![(k + 1) \div 2] = Clip(@ + (IF k % 2 = 1 THEN 1 ELSE -1))]
        losses == [k \in 1..8 |-> TrainLoss(TrainLocals(Neighbour(k), views, kind))]
        least == CHOOSE k \in 1..8 :
                    /\ \A m \in 1..8 : ~RatLess(losses[m], losses[k])
                    /\ \A m \in 1..(k - 1) : RatLess(losses[k], losses[m])
    IN Neighbour(least)

\* The state of one run of train.
NoCheckpoint == <<>>
NewRun(theta) ==
    [theta |-> theta, loss |-> NotYet, train_loss |-> RatZero, val_loss |-> RatZero,
     train_metric_ref_list |-> <<>>, train_metric_seg_list |-> <<>>,
     val_metric_ref_list |-> <<>>, val_metric_seg_list |-> <<>>,
     best_val_loss |-> Inf, checkpoint |-> NoCheckpoint,
     saved |-> FALSE, early_stopper |-> NewEarlyStopping, stop |-> FALSE,
     alive |-> TRUE]

\* Lines 265-310 on the state of a run.
TrainBatchRest(r, views, kind) ==
    LET loc == TrainLocals(r.theta, views, kind)
        loss == TrainLoss(loc)
    IN [r EXCEPT !.train_metric_ref_list = @ \o BatchMetricRef(loc),
                 !.train_metric_seg_list = @ \o BatchMetricSeg(loc),
                 !.loss = loss,
                 !.train_loss = RatAdd(@, RatTimes(loss, Len(views.unannotated_images))),
                 !.theta = OptimizerStep(r.theta, views, kind)]

\* Mutant: the validation iteration takes an optimizer step as well.
ValBatchRestWithStep(r, views, kind) ==
    LET loc == ValLocals(r.theta, views, kind)
        loss == ValLoss(loc)
    IN [r EXCEPT !.val_metric_ref_list = @ \o BatchMetricRef(loc),
                 !.val_metric_seg_list = @ \o BatchMetricSeg(loc),
                 !.loss = loss,
                 !.val_loss = RatAdd(@, RatTimes(loss, Len(views.unannotated_images))),
                 !.theta = OptimizerStep(r.theta, views, kind)]

\* Lines 383-435 on the state of a run.
ValBatchRest(r, views, kind) ==
    LET loc == ValLocals(r.theta, views, kind)
        loss == ValLoss(loc)
    IN [r EXCEPT !.val_metric_ref_list = @ \o BatchMetricRef(loc),
                 !.val_metric_seg_list = @ \o BatchMetricSeg(loc),
                 !.loss = loss,
                 !.val_loss = RatAdd(@, RatTimes(loss, Len(views.unannotated_images)))]

\* Line 457.
\* Mutant: a tie counts as an improvement.
ImprovesOrTies(val_loss, best_val_loss) == ~RatLess(best_val_loss, val_loss)
Improves(val_loss, best_val_loss) == RatLess(val_loss, best_val_loss)

\* Lines 457-462.
CheckpointStep(r) ==
    IF Improves(r.val_loss, r.best_val_loss)
    THEN [r EXCEPT !.best_val_loss = r.val_loss, !.checkpoint = r.theta,
                   !.saved = TRUE]
    ELSE [r EXCEPT !.saved = FALSE]

\* Line 464.
EarlyStopStep(r) ==
    LET s == EarlyStoppingStep(r.early_stopper, r.val_loss)
    IN [r EXCEPT !.early_stopper = s.state, !.stop = s.stop]

\* The comparison run goes through the same steps while it is alive.
Alongside(r, stepped) == IF r.alive THEN stepped ELSE r

----------------------------------------------------------------------------
(* train: the state machine *)

NoBatch == [phase |-> "none"]

\* The state at line 196: loaders, model and early stopper built, no epoch run.
TrainInit ==
    /\ tpc = "epoch"
    /\ strong \in BOOLEAN
    /\ n_plot_per_epoch \in 1..2
    /\ train_loader \in TrainLoaders
    /\ val_loader \in ValLoaders
    /\ label_kind \in { LabelKinds[k] : k \in 1..Len(LabelKinds) }
    /\ other_label_kind = KindAfter(label_kind)
    /\ epoch_idx = 0
    /\ iter_idx = 0
    /\ plot_freq = 0
    /\ permuted_idx = <<>>
    /\ batch = NoBatch
    /\ \E theta \in InitialParameters : run = NewRun(theta) /\ other = NewRun(theta)
    /\ lr_epochs = 0
    /\ figures = {}
    /\ history = <<>>

TrainIdle ==
    /\ tpc = "idle"
    /\ strong = FALSE
    /\ n_plot_per_epoch = 1
    /\ train_loader = <<>>
    /\ val_loader = <<>>
    /\ label_kind = "mask"
    /\ other_label_kind = "mask"
    /\ epoch_idx = 0
    /\ iter_idx = 0
    /\ plot_freq = 0
    /\ permuted_idx = <<>>
    /\ batch = NoBatch
    /\ run = NewRun(<<0, 0, 0, 0>>)
    /\ other = NewRun(<<0, 0, 0, 0>>)
    /\ lr_epochs = 0
    /\ figures = {}
    /\ history = <<>>

\* The permutations line 216 (354) can draw; weak mode draws none.
Draws(ids) == IF strong THEN BatchPermutations(Len(ids)) ELSE {permuted_idx}

\* Lines 197-202: the next epoch begins.
BeginEpoch ==
    /\ TrainFrame
    /\ tpc = "epoch"
    /\ epoch_idx < MaxEpochs
    /\ run' = [run EXCEPT !.train_loss = RatZero,
                          !.train_metric_ref_list = <<>>,
                          !.train_metric_seg_list = <<>>]
    /\ other' = Alongside(other, [other EXCEPT !.train_loss = RatZero,
                                                !.train_metric_ref_list = <<>>,
                                                !.train_metric_seg_list = <<>>])
    /\ plot_freq' = Len(train_loader) \div n_plot_per_epoch
    /\ iter_idx' = 0
    /\ tpc' = "train"
    /\ UNCHANGED <<strong, n_plot_per_epoch, train_loader, val_loader, label_kind,
                   other_label_kind, epoch_idx, permuted_idx, batch, lr_epochs,
                   figures, history>>

\* Lines 197 and 470: range(config.max_epochs) is used up.
ReturnAfterLastEpoch ==
    /\ TrainFrame
    /\ tpc = "epoch"
    /\ epoch_idx = MaxEpochs
    /\ tpc' = "returned"
    /\ UNCHANGED <<strong, n_plot_per_epoch, train_loader, val_loader, label_kind,
                   other_label_kind, epoch_idx, iter_idx, plot_freq, permuted_idx,
                   batch, run, other, lr_epochs, figures, history>>

\* Lines 203-263 of one training iteration, up to the breakpoint.
TrainBatchHead ==
    /\ TrainFrame
    /\ tpc = "train"
    /\ iter_idx < Len(train_loader)
    /\ plot_freq # 0
    /\ LET ids == train_loader[iter_idx + 1]
       IN \E p \in Draws(ids) :
            LET views == BatchViews(ids, p, label_kind)
                other_views == BatchViews(ids, p, other_label_kind)
            IN /\ LabelAssertion(views, label_kind)
               /\ permuted_idx' = p
               /\ batch' = [phase |-> "train",
                            epoch_idx |-> epoch_idx,
                            iter_idx |-> iter_idx,
                            ids |-> ids,
                            curr_batch_size |-> Len(ids),
                            shall_plot |-> (iter_idx % plot_freq = plot_freq - 1),
                            theta |-> run.theta,
                            views |-> views,
                            locals |-> TrainLocals(run.theta, views, label_kind),
                            loss_forward |-> NotYet,
                            loss_cyclic |-> NotYet,
                            loss |-> NotYet]
               /\ other' = IF LabelAssertion(other_views, other_label_kind)
                           THEN other ELSE [other EXCEPT !.alive = FALSE]
    /\ tpc' = "pdb"
    /\ UNCHANGED <<strong, n_plot_per_epoch, train_loader, val_loader, label_kind,
                   other_label_kind, epoch_idx, iter_idx, plot_freq, run, lr_epochs,
                   figures, history>>

\* Line 207 divides by a plot_freq of 0, or the assertion of line 237 fails.
TrainBatchRaise ==
    /\ TrainFrame
    /\ tpc = "train"
    /\ iter_idx < Len(train_loader)
    /\ LET ids == train_loader[iter_idx + 1]
       IN \/ /\ plot_freq = 0
             /\ tpc' = "ZeroDivisionError"
             /\ UNCHANGED permuted_idx
          \/ /\ plot_freq # 0
             /\ \E p \in Draws(ids) :
                  /\ ~LabelAssertion(BatchViews(ids, p, label_kind), label_kind)
                  /\ permuted_idx' = p
             /\ tpc' = "AssertionError"
    /\ UNCHANGED <<strong, n_plot_per_epoch, train_loader, val_loader, label_kind,
                   other_label_kind, epoch_idx, iter_idx, plot_freq, batch, run,
                   other, lr_epochs, figures, history>>

\* Line 263 stops at the debugger prompt; on "continue" lines 265-310 run.
DebuggerContinue ==
    /\ TrainFrame
    /\ tpc = "pdb"
    /\ LET ids == train_loader[iter_idx + 1]
           views == BatchViews(ids, permuted_idx, label_kind)
           other_views == BatchViews(ids, permuted_idx, other_label_kind)
       IN /\ figures' = IF batch.shall_plot
                        THEN figures \cup {<<"train", epoch_idx, iter_idx>>}
                        ELSE figures
          /\ batch' = [batch EXCEPT !.loss_forward = TrainLossForward(batch.locals),
                                    !.loss_cyclic = TrainLossCyclic(batch.locals),
                                    !.loss = TrainLoss(batch.locals)]
          /\ run' = TrainBatchRest(run, views, label_kind)
          /\ other' = Alongside(other, TrainBatchRest(other, other_views, other_label_kind))
    /\ iter_idx' = iter_idx + 1
    /\ tpc' = "train"
    /\ UNCHANGED <<strong, n_plot_per_epoch, train_loader, val_loader, label_kind,
                   other_label_kind, epoch_idx, plot_freq, permuted_idx, lr_epochs,
                   history>>

\* Line 263: the debugger is left with "quit" or its input is at end of file.
DebuggerQuit ==
    /\ TrainFrame
    /\ tpc = "pdb"
    /\ tpc' = "BdbQuit"
    /\ UNCHANGED <<strong, n_plot_per_epoch, train_loader, val_loader, label_kind,
                   other_label_kind, epoch_idx, iter_idx, plot_freq, permuted_idx,
                   batch, run, other, lr_epochs, figures, history>>

\* Lines 312-340: the training loss of the epoch, the learning-rate step, and
\* the start of the validation phase.
TrainEpochEnd ==
    /\ TrainFrame
    /\ tpc = "train"
    /\ iter_idx = Len(train_loader)
    /\ DatasetLen(train_loader) # 0
    /\ run' = [run EXCEPT !.train_loss = RatOver(@, DatasetLen(train_loader)),
                          !.val_loss = RatZero,
                          !.val_metric_ref_list = <<>>,
                          !.val_metric_seg_list = <<>>]
    /\ other' = Alongside(other,
                    [other EXCEPT !.train_loss = RatOver(@, DatasetLen(train_loader)),
                                  !.val_loss = RatZero,
                                  !.val_metric_ref_list = <<>>,
                                  !.val_metric_seg_list = <<>>])
    /\ lr_epochs' = lr_epochs + 1
    /\ plot_freq' = Len(val_loader) \div n_plot_per_epoch
    /\ iter_idx' = 0
    /\ tpc' = "val"
    /\ UNCHANGED <<strong, n_plot_per_epoch, train_loader, val_loader, label_kind,
                   other_label_kind, epoch_idx, permuted_idx, batch, figures, history>>

\* Line 312 divides by the length of an empty dataset.
TrainEpochEndRaise ==
    /\ TrainFrame
    /\ tpc = "train"
    /\ iter_idx = Len(train_loader)
    /\ DatasetLen(train_loader) = 0
    /\ tpc' = "ZeroDivisionError"
    /\ UNCHANGED <<strong, n_plot_per_epoch, train_loader, val_loader, label_kind,
                   other_label_kind, epoch_idx, iter_idx, plot_freq, permuted_idx,
                   batch, run, other, lr_epochs, figures, history>>

\* Lines 341-435: one validation iteration.
ValBatch ==
    /\ TrainFrame
    /\ tpc = "val"
    /\ iter_idx < Len(val_loader)
    /\ plot_freq # 0
    /\ LET ids == val_loader[iter_idx + 1]
       IN \E p \in Draws(ids) :
            LET views == BatchViews(ids, p, label_kind)
                other_views == BatchViews(ids, p, other_label_kind)
                locals == ValLocals(run.theta, views, label_kind)
                shall_plot == (iter_idx % plot_freq = plot_freq - 1)
                still == IF LabelAssertion(other_views, other_label_kind)
                         THEN other ELSE [other EXCEPT !.alive = FALSE]
            IN /\ LabelAssertion(views, label_kind)
               /\ permuted_idx' = p
               /\ batch' = [phase |-> "val",
                            epoch_idx |-> epoch_idx,
                            iter_idx |-> iter_idx,
                            ids |-> ids,
                            curr_batch_size |-> Len(ids),
                            shall_plot |-> shall_plot,
                            theta |-> run.theta,
                            views |-> views,
                            locals |-> locals,
                            loss_forward |-> ValLossForward(locals),
                            loss_cyclic |-> ValLossCyclic(locals),
                            loss |-> ValLoss(locals)]
               /\ figures' = IF shall_plot
                             THEN figures \cup {<<"val", epoch_idx, iter_idx>>}
                             ELSE figures
               /\ run' = ValBatchRest(run, views, label_kind)
               /\ other' = Alongside(still, ValBatchRest(still, other_views, other_label_kind))
    /\ iter_idx' = iter_idx + 1
    /\ UNCHANGED <<tpc, strong, n_plot_per_epoch, train_loader, val_loader, label_kind,
                   other_label_kind, epoch_idx, plot_freq, lr_epochs, history>>

\* Line 345 divides by a plot_freq of 0, or the assertion of line 375 fails.
ValBatchRaise ==
    /\ TrainFrame
    /\ tpc = "val"
    /\ iter_idx < Len(val_loader)
    /\ LET ids == val_loader[iter_idx + 1]
       IN \/ /\ plot_freq = 0
             /\ tpc' = "ZeroDivisionError"
             /\ UNCHANGED permuted_idx
          \/ /\ plot_freq # 0
             /\ \E p \in Draws(ids) :
                  /\ ~LabelAssertion(BatchViews(ids, p, label_kind), label_kind)
                  /\ permuted_idx' = p
             /\ tpc' = "AssertionError"
    /\ UNCHANGED <<strong, n_plot_per_epoch, train_loader, val_loader, label_kind,
                   other_label_kind, epoch_idx, iter_idx, plot_freq, batch, run,
                   other, lr_epochs, figures, history>>

\* Lines 437-446: the validation loss of the epoch.
ValEpochEnd ==
    /\ TrainFrame
    /\ tpc = "val"
    /\ iter_idx = Len(val_loader)
    /\ DatasetLen(val_loader) # 0
    /\ run' = [run EXCEPT !.val_loss = RatOver(@, DatasetLen(val_loader))]
    /\ other' = Alongside(other,
                    [other EXCEPT !.val_loss = RatOver(@, DatasetLen(val_loader))])
    /\ tpc' = "checkpoint"
    /\ UNCHANGED <<strong, n_plot_per_epoch, train_loader, val_loader, label_kind,
                   other_label_kind, epoch_idx, iter_idx, plot_freq, permuted_idx,
                   batch, lr_epochs, figures, history>>

\* Line 437 divides by the length of an empty dataset.
ValEpochEndRaise ==
    /\ TrainFrame
    /\ tpc = "val"
    /\ iter_idx = Len(val_loader)
    /\ DatasetLen(val_loader) = 0
    /\ tpc' = "ZeroDivisionError"
    /\ UNCHANGED <<strong, n_plot_per_epoch, train_loader, val_loader, label_kind,
                   other_label_kind, epoch_idx, iter_idx, plot_freq, permuted_idx,
                   batch, run, other, lr_epochs, figures, history>>

\* Lines 457-462: the weights are saved or not.
SaveIfBest ==
    /\ TrainFrame
    /\ tpc = "checkpoint"
    /\ run' = CheckpointStep(run)
    /\ other' = Alongside(other, CheckpointStep(other))
    /\ history' = Append(history,
                         [val_loss |-> run.val_loss,
                          weights |-> run.theta,
                          saved |-> run'.saved,
                          best_val_loss |-> run'.best_val_loss,
                          checkpoint |-> run'.checkpoint])
    /\ tpc' = "early_stop"
    /\ UNCHANGED <<strong, n_plot_per_epoch, train_loader, val_loader, label_kind,
                   other_label_kind, epoch_idx, iter_idx, plot_freq, permuted_idx,
                   batch, lr_epochs, figures>>

\* Lines 464-468 and 197: the early stopper sees the validation loss; the
\* loop breaks and train returns, or the next epoch is due.
EarlyStopCheck ==
    /\ TrainFrame
    /\ tpc = "early_stop"
    /\ run' = EarlyStopStep(run)
    /\ other' = Alongside(other, EarlyStopStep(other))
    /\ IF run'.stop
       THEN tpc' = "returned" /\ UNCHANGED epoch_idx
       ELSE tpc' = "epoch" /\ epoch_idx' = epoch_idx + 1
    /\ UNCHANGED <<strong, n_plot_per_epoch, train_loader, val_loader, label_kind,
                   other_label_kind, iter_idx, plot_freq, permuted_idx, batch,
                   lr_epochs, figures, history>>

----------------------------------------------------------------------------
(* The cyclic loss on one image and one pair of fields *)

\* A field that moves every pixel by (dr, dc), in units of 1/FlowUnit of a
\* pixel.
UniformField(dr, dc) ==
    << [i \in 1..ImgSize |-> [j \in 1..ImgSize |-> dr]],
       [i \in 1..ImgSize |-> [j \in 1..ImgSize |-> dc]] >>

\* The field that exchanges neighbouring rows two by two.
SwapStep(k) == IF k % 2 = 1 THEN (IF k < ImgSize THEN 1 ELSE 0) ELSE -1
RowSwapField ==
    << [i \in 1..ImgSize |-> [j \in 1..ImgSize |-> FlowUnit * SwapStep(i)]],
       [i \in 1..ImgSize |-> [j \in 1..ImgSize |-> 0]] >>

\* The fields that turn the image by a quarter: the pixel (i, j) samples
\* (j, ImgSize + 1 - i), and the other way round (ImgSize + 1 - j, i).
QuarterTurnField ==
    << [i \in 1..ImgSize |-> [j \in 1..ImgSize |-> FlowUnit * (j - i)]],
       [i \in 1..ImgSize |-> [j \in 1..ImgSize |-> FlowUnit * (ImgSize + 1 - i - j)]] >>
QuarterTurnBackField ==
    << [i \in 1..ImgSize |-> [j \in 1..ImgSize |-> FlowUnit * (ImgSize + 1 - j - i)]],
       [i \in 1..ImgSize |-> [j \in 1..ImgSize |-> FlowUnit * (i - j)]] >>

\* The fields the loss is computed on: no displacement, half a pixel and a
\* whole pixel along the columns, half a pixel along both rows and columns,
\* each in both directions, and the three fields above.
UniformSteps ==
    { <<0, 0>>, <<0, 1>>, <<0, -1>>, <<0, FlowUnit>>, <<0, -FlowUnit>>, <<1, 1>>, <<-1, -1>> }
FieldChoices ==
    { UniformField(d[1], d[2]) : d \in UniformSteps }
    \cup {RowSwapField, QuarterTurnField, QuarterTurnBackField}

\* The intensities of the image: black, and a white that two interpolations
\* in a row divide without remainder.
FullIntensity == FlowUnit * FlowUnit * FlowUnit * FlowUnit

\* Lines 257-258 (388-389): the unannotated image warped forward, then back.
ImagesU2A(image, forward) == Warper(<<image>>, <<forward>>)
ImagesU2AA2U(image, forward, reverse) == Warper(ImagesU2A(image, forward), <<reverse>>)

\* The rest of the sample: the annotated image is the unannotated one
\* transposed, and the masks of both patches cover them whole.
Transposed(image) == [i \in 1..ImgSize |-> [j \in 1..ImgSize |-> image[j][i]]]
WholePatchMask == [i \in 1..ImgSize |-> [j \in 1..ImgSize |-> 1]]

\* Lines 228-259 on the sample and the two fields: the tensors bound when the
\* iteration reaches line 263, in an epoch whose metric lists are still empty.
CyclicLocals(image, forward, reverse, shall_plot) ==
    [label_is_binary |-> TRUE,
     shall_plot |-> shall_plot,
     unannotated_images |-> <<image>>,
     annotated_images |-> <<Transposed(image)>>,
     unannotated_labels |-> <<WholePatchMask>>,
     annotated_labels |-> <<WholePatchMask>>,
     images_U2A |-> ImagesU2A(image, forward),
     images_U2A_A2U |-> ImagesU2AA2U(image, forward, reverse),
     labels_A2U |-> Warper(<<WholePatchMask>>, <<reverse>>),
     train_metric_ref_list |-> <<>>,
     train_metric_seg_list |-> <<>>,
     figure |-> FALSE,
     loss_forward |-> NotYet]

\* What a statement typed at the prompt of line 263 may bind images_U2A_A2U
\* to: one of the image tensors in scope.
RebindChoices(loc) == {loc.unannotated_images, loc.images_U2A}

CyclicInit ==
    /\ cpc = "start"
    /\ cyc_image \in Matrix(ImgSize, {0, FullIntensity})
    /\ cyc_forward \in FieldChoices
    /\ cyc_reverse \in FieldChoices
    /\ cyc_locals \in { [shall_plot |-> p] : p \in BOOLEAN }
    /\ cyc_loss = NotYet

CyclicIdle ==
    /\ cpc = "idle"
    /\ cyc_image = <<>>
    /\ cyc_forward = <<>>
    /\ cyc_reverse = <<>>
    /\ cyc_locals = <<>>
    /\ cyc_loss = NotYet

\* Lines 257-263: the warps are applied and the iteration stops at the
\* debugger prompt.
CyclicWarp ==
    /\ CyclicFrame
    /\ cpc = "start"
    /\ cyc_locals' = CyclicLocals(cyc_image, cyc_forward, cyc_reverse, cyc_locals.shall_plot)
    /\ cpc' = "pdb"
    /\ UNCHANGED <<cyc_image, cyc_forward, cyc_reverse, cyc_loss>>

\* Line 263, a statement at the prompt: the locals are the user's to rebind.
CyclicDebuggerStatement ==
    /\ CyclicFrame
    /\ cpc = "pdb"
    /\ \E t \in RebindChoices(cyc_locals) :
           cyc_locals' = [cyc_locals EXCEPT !.images_U2A_A2U = t]
    /\ UNCHANGED <<cpc, cyc_image, cyc_forward, cyc_reverse, cyc_loss>>

\* Line 263: the debugger is left with "quit" or its input is at end of file;
\* loss_cyclic is never bound.
CyclicDebuggerQuit ==
    /\ CyclicFrame
    /\ cpc = "pdb"
    /\ cpc' = "BdbQuit"
    /\ UNCHANGED <<cyc_image, cyc_forward, cyc_reverse, cyc_locals, cyc_loss>>

\* Lines 265-301 on "continue": the warped label is thresholded, the two
\* metrics of the sample are appended, the figure is drawn if the iteration
\* plots, and the two losses are computed.
ComputeCyclicLoss ==
    /\ CyclicFrame
    /\ cpc = "pdb"
    /\ LET loc == [cyc_locals EXCEPT !.labels_A2U = Threshold(@)]
       IN /\ cyc_locals' =
               [loc EXCEPT !.train_metric_ref_list = @ \o BatchMetricRef(loc),
                           !.train_metric_seg_list = @ \o BatchMetricSeg(loc),
                           !.figure = loc.shall_plot,
                           !.loss_forward = TrainLossForward(loc)]
          /\ cyc_loss' = TrainLossCyclic(loc)
    /\ cpc' = "done"
    /\ UNCHANGED <<cyc_image, cyc_forward, cyc_reverse>>

----------------------------------------------------------------------------
(* eval_stitched *)

\* The ground-truth folder handed to eval_stitched.
true_folder == <<"g", "t">>

\* The stitched canvases and the ground-truth label maps eval_stitched may
\* find: a canvas with nothing on it, a canvas with the first row set, and a
\* label map of one pixel.
FirstRowCanvas == [rc \in Pixels |-> IF rc[1] = 0 THEN 1 ELSE 0]
OnePixelMap == [rc \in {<<0, 0>>} |-> 1]

\* The file names of the two folders.
EvalNamePool ==
    { <<"a", ".", "p", "n", "g">>, <<"b", ".", "p", "n", "g">>,
      <<"c", ".", "p", "n", "g">>, <<"a", ".", "t", "x", "t">> }
PredPathPool == { stitched_folder \o Slash \o n : n \in EvalNamePool }
TruePathPool == { true_folder \o Slash \o n : n \in EvalNamePool }

\* Organ2FileID[organ]['test'] and GLySAC_Organ2FileID[organ]['test'] of
\* preprocessing.Metas: the file ids of the configured organ.
FileIdChoices == { {<<"a">>, <<"b">>}, {<<"b">>}, {} }

\* The values of the dataset_name parameter.
DatasetNames == {"MoNuSeg", "GLySAC", "A28+axis"}

\* os.path.basename.
RECURSIVE Basename(_)
Basename(path) ==
    IF \E k \in 1..Len(path) : path[k] = "/" THEN Basename(Tail(path)) ELSE path

\* Lines 671-672: sorted(glob(folder + '/*.png')) on the files of a folder.
SortedPngs(disk) == Sorted(GlobPng(DOMAIN disk))

\* Line 680: the ground-truth paths that hold one of the file ids.
HoldsFileId(x, ids) == \E file_id \in ids : Contains(x, file_id)
FilterByFileIds(list, ids) == SelectSeq(list, LAMBDA x : HoldsFileId(x, ids))

\* Lines 674-679: file_ids is bound for these two dataset names only.
FileIdsBound(name) == name \in {"MoNuSeg", "GLySAC"}

\* Line 684.
CountsAgreeOrFewer(preds, trues) == Len(preds) <= Len(trues)
CountsAgree(preds, trues) == Len(preds) = Len(trues)

\* numpy's shape of what cv2.imread returned: rows, columns.
Shape(m) == <<Cardinality({ rc[1] : rc \in DOMAIN m }),
              Cardinality({ rc[2] : rc \in DOMAIN m })>>

\* Line 690.
ShapesEqual(pred_label, true_label) == Shape(pred_label) = Shape(true_label)

\* metrics.compute_metrics(pred_label, true_label, ['p_F1', 'aji', 'iou']) of
\* utils.metrics: set-overlap values of the two foregrounds.  The label maps
\* of this model hold at most one connected object, for which the aggregated
\* Jaccard index is the IoU.
Foreground(m) == { rc \in DOMAIN m : m[rc] > 0 }
compute_metrics(pred_label, true_label) ==
    LET p == Foreground(pred_label)
        t == Foreground(true_label)
        both == Cardinality(p \cap t)
        iou == Rat(both, Cardinality(p \cup t))
    IN [p_F1 |-> Rat(2 * both, Cardinality(p) + Cardinality(t)),
        aji |-> iou,
        iou |-> iou]

\* Lines 695-698: the mean of every metric over the pairs.
MetricKeys == {"p_F1", "aji", "iou"}
RECURSIVE RatSum(_, _, _)
RatSum(list, key, n) ==
    IF n = 0 THEN RatZero ELSE RatAdd(list[n][key], RatSum(list, key, n - 1))
MeanOfMetrics(list) ==
    [key \in MetricKeys |-> RatOver(RatSum(list, key, Len(list)), Len(list))]

NoResults == <<>>

\* eval_stitched is called on a stitched folder and a ground-truth folder.
EvalInit ==
    /\ epc = "start"
    /\ dataset_name \in DatasetNames
    /\ file_ids \in FileIdChoices
    /\ \E S \in { S \in SUBSET TruePathPool : Cardinality(S) <= MaxFiles } :
           true_disk \in [S -> {FirstRowCanvas, OnePixelMap}]
    /\ pred_list = <<>>
    /\ true_list = <<>>
    /\ pair_i = 1
    /\ metric_list = <<>>
    /\ eval_results = NoResults

EvalIdle ==
    /\ epc = "idle"
    /\ dataset_name = "MoNuSeg"
    /\ file_ids = {}
    /\ true_disk = <<>>
    /\ pred_list = <<>>
    /\ true_list = <<>>
    /\ pair_i = 1
    /\ metric_list = <<>>
    /\ eval_results = NoResults

\* Lines 669-682.  The filter of line 680 reads file_ids once per ground-truth
\* path, so it reads it only if the ground-truth listing holds a path; on an
\* empty listing it yields the empty list whether file_ids is bound or not.
EvalList ==
    /\ EvalFrame
    /\ epc = "start"
    /\ FileIdsBound(dataset_name) \/ SortedPngs(true_disk) = <<>>
    /\ pred_list' = SortedPngs(disk_stitched)
    /\ true_list' = IF SortedPngs(true_disk) = <<>> THEN <<>>
                    ELSE FilterByFileIds(SortedPngs(true_disk), file_ids)
    /\ pair_i' = 1
    /\ metric_list' = <<>>
    /\ eval_results' = NoResults
    /\ epc' = "assert"
    /\ UNCHANGED <<dataset_name, file_ids, true_disk>>

\* Line 680 reads file_ids for the first ground-truth path, and neither branch
\* of lines 674-679 has bound it.  The read is inside a comprehension: the
\* interpreters that compile a comprehension as a nested function raise
\* NameError, those that inline it raise UnboundLocalError.  Lines 669-670 have
\* bound both listings by then, the second one unfiltered.
UnboundFileIdsErrors == {"NameError", "UnboundLocalError"}
EvalListRaise ==
    /\ EvalFrame
    /\ epc = "start"
    /\ ~FileIdsBound(dataset_name)
    /\ SortedPngs(true_disk) # <<>>
    /\ pred_list' = SortedPngs(disk_stitched)
    /\ true_list' = SortedPngs(true_disk)
    /\ epc' \in UnboundFileIdsErrors
    /\ UNCHANGED <<dataset_name, file_ids, true_disk, pair_i, metric_list,
                   eval_results>>

\* Lines 684-686.
EvalAssertCounts ==
    /\ EvalFrame
    /\ epc = "assert"
    /\ epc' = IF CountsAgree(pred_list, true_list) THEN "pairs" ELSE "AssertionError"
    /\ UNCHANGED <<dataset_name, file_ids, true_disk, pred_list, true_list, pair_i,
                   metric_list, eval_results>>

\* Lines 687-693, one iteration over zip(pred_list, true_list).
EvalPair ==
    /\ EvalFrame
    /\ epc = "pairs"
    /\ pair_i <= Min(Len(pred_list), Len(true_list))
    /\ LET pred_label == disk_stitched[pred_list[pair_i]]
           true_label == true_disk[true_list[pair_i]]
       IN IF ShapesEqual(pred_label, true_label)
          THEN /\ metric_list' = Append(metric_list, compute_metrics(pred_label, true_label))
               /\ pair_i' = pair_i + 1
               /\ UNCHANGED epc
          ELSE /\ epc' = "AssertionError"
               /\ UNCHANGED <<metric_list, pair_i>>
    /\ UNCHANGED <<dataset_name, file_ids, true_disk, pred_list, true_list,
                   eval_results>>

\* Lines 695-700 with at least one pair.
EvalReturn ==
    /\ EvalFrame
    /\ epc = "pairs"
    /\ pair_i > Min(Len(pred_list), Len(true_list))
    /\ Len(metric_list) >= 1
    /\ eval_results' = MeanOfMetrics(metric_list)
    /\ epc' = "returned"
    /\ UNCHANGED <<dataset_name, file_ids, true_disk, pred_list, true_list, pair_i,
                   metric_list>>

\* Line 696 on an empty metric_list: metric_list[0] raises IndexError.
EvalReturnRaise ==
    /\ EvalFrame
    /\ epc = "pairs"
    /\ pair_i > Min(Len(pred_list), Len(true_list))
    /\ Len(metric_list) = 0
    /\ epc' = "IndexError"
    /\ UNCHANGED <<dataset_name, file_ids, true_disk, pred_list, true_list, pair_i,
                   metric_list, eval_results>>

----------------------------------------------------------------------------
(* infer *)

\* The names infer reads without binding them itself: module globals, and
\* attributes of config that the argument parser of lines 865-895 does not
\* define.  Run as a script, line 911 has bound model_name and nothing else;
\* imported as a module, none is bound; a caller may have set them all.
ModuleGlobals == {"model_name", "load_match_pairs", "save_folder", "dataset_name"}
ConfigAttributes == {"config.output_save_root", "config.matched_pair_path_root",
                     "config.groudtruth_folder"}
BoundChoices ==
    { {}, {"model_name"},
      (ModuleGlobals \ {"save_folder"}) \cup ConfigAttributes,
      ModuleGlobals \cup ConfigAttributes }

\* The test image paths load_match_pairs may return: the i-th path names the
\* i-th matched pair.
TestDir == <<"d", "/">>
TestPathChoices ==
    { << >>,
      << TestDir \o <<"a", "_", "H", "0", "_", "W", "0", ".", "p", "n", "g">> >>,
      << TestDir \o <<"b", "_", "H", "0", "1", "_", "W", "0", ".", "p", "n", "g">>,
         TestDir \o <<"a", "_", "H", "0", "_", "W", "0", ".", "p", "n", "g">>,
         TestDir \o <<"a", "_", "H", "0", "_", "W", "1", "6", ".", "p", "n", "g">> >>,
      << TestDir \o <<"a", ".", "p", "n", "g">> >>,
      << TestDir \o <<"a", "_", "H", "-", "3", "3", "_", "W", "0", ".", "p", "n", "g">> >> }

\* The matched pair i: the test image and label are view 0 of sample i, the
\* closest image and label are view 1 of it.
test_image(i) == ImageView(i, 0)
test_label(i) == LabelView("mask", i, 0)
closest_image(i) == ImageView(i, 1)
closest_label(i) == LabelView("mask", i, 1)

\* The ground-truth folders of config.groudtruth_folder.
InferTrueDisks ==
    { << >>,
      (true_folder \o Slash \o <<"a", ".", "p", "n", "g">>) :> FirstRowCanvas,
      (true_folder \o Slash \o <<"a", ".", "p", "n", "g">>) :> OnePixelMap,
      ((true_folder \o Slash \o <<"a", ".", "p", "n", "g">>) :> FirstRowCanvas)
          @@ ((true_folder \o Slash \o <<"b", ".", "p", "n", "g">>) :> FirstRowCanvas) }

\* A file the pred_patches folder may hold from before.
StalePatch == pred_label_folder \o Slash \o <<"c", "_", "H", "0", "_", "W", "0", ".", "p", "n", "g">>

\* A canvas the stitched_labels folder may hold from an earlier run on the same
\* output root: line 598 creates the folder with exist_ok and nothing empties it.
StaleCanvas == stitched_folder \o Slash \o <<"c", ".", "p", "n", "g">>

\* DataLoader(dataset, batch_size=config.batch_size, shuffle=False): the
\* indices of batch iter_idx (from 0) of n samples.
NumBatches(n) == (n + BatchSize - 1) \div BatchSize
BatchIndices(n, k) ==
    [b \in 1..(Min((k + 1) * BatchSize, n) - k * BatchSize) |-> k * BatchSize + b]

\* Lines 776-785: the predicted labels of one batch.
InferLocals(theta, idx) ==
    Held(LET bclosest_images == [b \in 1..Len(idx) |-> closest_image(idx[b])]
             btest_images == [b \in 1..Len(idx) |-> test_image(idx[b])]
             bclosest_labels == [b \in 1..Len(idx) |-> closest_label(idx[b])]
             warp_predicted == WarpPredictor(theta, Cat(bclosest_images, btest_images))
             warp_field_forward == FirstTwoChannels(warp_predicted)
             warp_field_reverse == LastTwoChannels(warp_predicted)
         IN [images_U2A |-> Warper(btest_images, warp_field_forward),
             pred_labels |-> Warper(bclosest_labels, warp_field_reverse)])

\* Lines 788-790.
PlotFreqInfer == 10
ShallPlot(k) == k % PlotFreqInfer = 0

\* Lines 805-808: the file of prediction i, and the folder after the loop.
PredFileName(paths, i) == pred_label_folder \o Slash \o Basename(paths[i])
WrittenImage(pred_label) == [kind |-> "image", image |-> Threshold(<<pred_label>>)[1]]
RECURSIVE WrittenAfter(_, _, _, _)
WrittenAfter(content, list, paths, n) ==
    IF n = 0 THEN content
    ELSE LET before == WrittenAfter(content, list, paths, n - 1)
             fname == PredFileName(paths, n)
         IN [f \in (DOMAIN before) \cup {fname} |->
                IF f = fname THEN WrittenImage(list[n]) ELSE before[f]]

\* utils.metrics.IoU on two binary images.
IoU(im1, im2) ==
    LET px == (1..ImgSize) \X (1..ImgSize)
        a == { p \in px : im1[p[1]][p[2]] > 0 }
        b == { p \in px : im2[p[1]][p[2]] > 0 }
    IN Rat(Cardinality(a \cap b), Cardinality(a \cup b))

\* np.mean of a list of metric values: not-a-number for the empty list.
NaN == <<0, 0>>
RECURSIVE RatListSum(_, _)
RatListSum(list, n) == IF n = 0 THEN RatZero ELSE RatAdd(list[n], RatListSum(list, n - 1))
NpMean(list) == IF Len(list) = 0 THEN NaN ELSE RatOver(RatListSum(list, Len(list)), Len(list))

\* Lines 818-848: the per-patch values against the test labels.
DiceList(list) ==
    [i \in 1..Len(list) |->
        dice_coeff(Threshold(<<test_label(i)>>)[1], Threshold(<<list[i]>>)[1])]
IoUList(list) ==
    [i \in 1..Len(list) |->
        IoU(Threshold(<<test_label(i)>>)[1], Threshold(<<list[i]>>)[1])]

\* infer is called.
InferInit ==
    /\ ipc = "start"
    /\ bound \in BoundChoices
    /\ checkpoint_file \in InitialParameters \cup {NoCheckpoint}
    /\ test_image_paths \in TestPathChoices
    /\ test_labels_given \in BOOLEAN
    /\ warp_predictor = NoCheckpoint
    /\ infer_iter_idx = 0
    /\ pred_label_list = <<>>
    /\ infer_figures = {}
    /\ log_lines = <<>>
    \* the files on disk and the arguments that reach eval_stitched
    /\ StitchNotRunning
    /\ folder_files \in { {}, {StalePatch} }
    /\ patch_content = [f \in folder_files |-> [kind |-> "ones", image |-> <<>>]]
    /\ disk_stitched \in { <<>>, StaleCanvas :> FirstRowCanvas }
    /\ epc = "idle"
    /\ dataset_name \in DatasetNames
    /\ file_ids \in FileIdChoices
    /\ true_disk \in InferTrueDisks
    /\ pred_list = <<>>
    /\ true_list = <<>>
    /\ pair_i = 1
    /\ metric_list = <<>>
    /\ eval_results = NoResults

InferIdle ==
    /\ ipc = "idle"
    /\ bound = {}
    /\ checkpoint_file = NoCheckpoint
    /\ test_image_paths = <<>>
    /\ test_labels_given = FALSE
    /\ warp_predictor = NoCheckpoint
    /\ infer_iter_idx = 0
    /\ pred_label_list = <<>>
    /\ infer_figures = {}
    /\ log_lines = <<>>

\* Lines 722-732: pred_label_folder is named, emptied and created.
InferPrepare ==
    /\ InferFrame
    /\ ipc = "start"
    /\ IF "config.output_save_root" \notin bound
       THEN ipc' = "AttributeError" /\ UNCHANGED <<folder_files, patch_content>>
       ELSE IF "model_name" \notin bound
       THEN ipc' = "NameError" /\ UNCHANGED <<folder_files, patch_content>>
       ELSE /\ folder_files' = {}
            /\ patch_content' = <<>>
            /\ ipc' = "build"
    /\ UNCHANGED <<bound, checkpoint_file, test_image_paths, test_labels_given,
                   warp_predictor, infer_iter_idx, pred_label_list, infer_figures,
                   log_lines>>
    /\ UNCHANGED <<spc, label_list, scan_i, base_label_list, base_i, label_patch_list,
                   patch_j, label_stitched, stitched_label_list, disk_stitched,
                   disk_colored, last_write, written_into>>
    /\ UNCHANGED evars

\* Lines 734-746: the model is built and the checkpoint loaded.
InferLoadWeights ==
    /\ InferFrame
    /\ ipc = "build"
    /\ IF checkpoint_file = NoCheckpoint
       THEN ipc' = "FileNotFoundError" /\ UNCHANGED warp_predictor
       ELSE warp_predictor' = checkpoint_file /\ ipc' = "pairs"
    /\ UNCHANGED <<bound, checkpoint_file, test_image_paths, test_labels_given,
                   infer_iter_idx, pred_label_list, infer_figures, log_lines>>
    /\ UNCHANGED <<svars, evars>>

\* Lines 749-761: the matched pairs are loaded.
InferLoadPairs ==
    /\ InferFrame
    /\ ipc = "pairs"
    /\ ipc' = IF "load_match_pairs" \notin bound THEN "NameError"
              ELSE IF "config.matched_pair_path_root" \notin bound THEN "AttributeError"
              ELSE "predict"
    /\ infer_iter_idx' = 0
    /\ pred_label_list' = <<>>
    /\ UNCHANGED <<bound, checkpoint_file, test_image_paths, test_labels_given,
                   warp_predictor, infer_figures, log_lines>>
    /\ UNCHANGED <<svars, evars>>

\* Lines 762-801, one batch.  The call of lines 797-801 hands plot_side_by_side
\* (line 50) eight of its ten required arguments, metric_name and metric are
\* missing: the call raises TypeError before a figure is drawn.
InferBatch ==
    /\ InferFrame
    /\ ipc = "predict"
    /\ infer_iter_idx < NumBatches(Len(test_image_paths))
    /\ LET idx == BatchIndices(Len(test_image_paths), infer_iter_idx)
           loc == InferLocals(warp_predictor, idx)
       IN pred_label_list' = pred_label_list \o loc.pred_labels
    /\ IF ShallPlot(infer_iter_idx) /\ test_labels_given
       THEN IF "save_folder" \notin bound
            THEN ipc' = "NameError" /\ UNCHANGED <<infer_figures, infer_iter_idx>>
            ELSE ipc' = "TypeError" /\ UNCHANGED <<infer_figures, infer_iter_idx>>
       ELSE /\ infer_iter_idx' = infer_iter_idx + 1
            /\ UNCHANGED <<ipc, infer_figures>>
    /\ UNCHANGED <<bound, checkpoint_file, test_image_paths, test_labels_given,
                   warp_predictor, log_lines>>
    /\ UNCHANGED <<svars, evars>>

\* Lines 803-808: every prediction is thresholded and written.
InferWrite ==
    /\ InferFrame
    /\ ipc = "predict"
    /\ infer_iter_idx >= NumBatches(Len(test_image_paths))
    /\ patch_content' = WrittenAfter(patch_content, pred_label_list, test_image_paths,
                                     Len(pred_label_list))
    /\ folder_files' = DOMAIN patch_content'
    /\ ipc' = "written"
    /\ UNCHANGED <<bound, checkpoint_file, test_image_paths, test_labels_given,
                   warp_predictor, infer_iter_idx, pred_label_list, infer_figures,
                   log_lines>>
    /\ UNCHANGED <<spc, label_list, scan_i, base_label_list, base_i, label_patch_list,
                   patch_j, label_stitched, stitched_label_list, disk_stitched,
                   disk_colored, last_write, written_into>>
    /\ UNCHANGED evars

\* Line 811: stitch_patches(pred_label_folder) is entered.
InferCallStitch ==
    /\ InferFrame
    /\ ipc = "written"
    /\ spc' = "start"
    /\ ipc' = "stitch"
    /\ UNCHANGED ivars_but_ipc
    /\ UNCHANGED <<folder_files, patch_content, label_list, scan_i, base_label_list,
                   base_i, label_patch_list, patch_j, label_stitched,
                   stitched_label_list, disk_stitched, disk_colored, last_write,
                   written_into>>
    /\ UNCHANGED evars

\* stitch_patches raises, and infer with it.
InferStitchRaise ==
    /\ InferFrame
    /\ ipc = "stitch"
    /\ spc \in {"AssertionError", "ValueError"}
    /\ ipc' = spc
    /\ UNCHANGED ivars_but_ipc
    /\ UNCHANGED <<svars, evars>>

\* Lines 811-814: stitch_patches has returned and eval_stitched is entered.
InferCallEval ==
    /\ InferFrame
    /\ ipc = "stitch"
    /\ spc = "done"
    /\ IF "config.groudtruth_folder" \notin bound
       THEN ipc' = "AttributeError" /\ UNCHANGED epc
       ELSE IF "dataset_name" \notin bound
       THEN ipc' = "NameError" /\ UNCHANGED epc
       ELSE ipc' = "eval" /\ epc' = "start"
    /\ UNCHANGED ivars_but_ipc
    /\ UNCHANGED <<dataset_name, file_ids, true_disk, pred_list, true_list, pair_i,
                   metric_list, eval_results>>
    /\ UNCHANGED svars

\* eval_stitched raises, and infer with it.
InferEvalRaise ==
    /\ InferFrame
    /\ ipc = "eval"
    /\ epc \in UnboundFileIdsErrors \cup {"AssertionError", "IndexError"}
    /\ ipc' = epc
    /\ UNCHANGED ivars_but_ipc
    /\ UNCHANGED <<svars, evars>>

\* Lines 816-817: one call of log per entry of the stitched results, in the
\* order of the metrics asked for at line 692.
StitchedKeyOrder == <<"p_F1", "aji", "iou">>
StitchedReports(results) ==
    [k \in 1..Len(StitchedKeyOrder) |->
        [what |-> "stitched", key |-> StitchedKeyOrder[k],
         value |-> results[StitchedKeyOrder[k]]]]

\* Lines 816-861: the stitched results are logged, then the per-patch Dice and
\* IoU if there are test labels.
InferReport ==
    /\ InferFrame
    /\ ipc = "eval"
    /\ epc = "returned"
    /\ log_lines' =
         log_lines
         \o StitchedReports(eval_results)
         \o (IF test_labels_given
             THEN <<[what |-> "dice", value |-> NpMean(DiceList(pred_label_list))],
                    [what |-> "iou", value |-> NpMean(IoUList(pred_label_list))]>>
             ELSE <<>>)
    /\ ipc' = "returned"
    /\ UNCHANGED <<bound, checkpoint_file, test_image_paths, test_labels_given,
                   warp_predictor, infer_iter_idx, pred_label_list, infer_figures>>
    /\ UNCHANGED <<svars, evars>>

----------------------------------------------------------------------------
(* test *)

\* The n_plot_per_epoch parameter: None by default.
NoneGiven == <<>>
PlotChoices == {NoneGiven, <<1>>, <<2>>}

\* The batches of the test set.
TestSets == { << <<1, 2>>, <<3>> >>, << <<4, 5>> >>, << >> }

\* config.save_folder is an attribute the argument parser of lines 865-895 does
\* not define; a caller may have set it.
TestBoundChoices == { {}, {"config.save_folder"} }

NoSums == [test_loss |-> RatZero, test_loss_forward |-> RatZero,
           test_loss_cyclic |-> RatZero]

TestInit ==
    /\ test_pc = "start"
    /\ test_n_plot_per_epoch \in PlotChoices
    /\ test_set \in TestSets
    /\ test_bound \in TestBoundChoices
    /\ test_checkpoint_file \in InitialParameters \cup {NoCheckpoint}
    /\ test_warp_predictor = NoCheckpoint
    /\ test_iter_idx = 0
    /\ test_plot_freq = 0
    /\ test_sums = NoSums
    /\ test_dice_ref_list = <<>>
    /\ test_dice_seg_list = <<>>

TestIdle ==
    /\ test_pc = "idle"
    /\ test_n_plot_per_epoch = NoneGiven
    /\ test_set = <<>>
    /\ test_bound = {}
    /\ test_checkpoint_file = NoCheckpoint
    /\ test_warp_predictor = NoCheckpoint
    /\ test_iter_idx = 0
    /\ test_plot_freq = 0
    /\ test_sums = NoSums
    /\ test_dice_ref_list = <<>>
    /\ test_dice_seg_list = <<>>

\* Lines 507-527 on one batch: the tensors of the iteration.  The labels are
\* thresholded whatever their type.
TestLocals(theta, ids) ==
    LET unannotated_images == [b \in 1..Len(ids) |-> ImageView(ids[b], 0)]
        annotated_images == [b \in 1..Len(ids) |-> ImageView(ids[b], 1)]
        unannotated_labels == Threshold([b \in 1..Len(ids) |-> LabelView("mask", ids[b], 0)])
        annotated_labels == Threshold([b \in 1..Len(ids) |-> LabelView("mask", ids[b], 1)])
        warp_predicted == WarpPredictor(theta, Cat(annotated_images, unannotated_images))
        warp_field_forward == FirstTwoChannels(warp_predicted)
        warp_field_reverse == LastTwoChannels(warp_predicted)
        images_U2A == Warper(unannotated_images, warp_field_forward)
    IN [unannotated_images |-> unannotated_images,
        annotated_images |-> annotated_images,
        unannotated_labels |-> unannotated_labels,
        annotated_labels |-> annotated_labels,
        images_U2A |-> images_U2A,
        images_U2A_A2U |-> Warper(images_U2A, warp_field_reverse),
        labels_A2U |-> Warper(annotated_labels, warp_field_reverse)]

\* Lines 530-536: the Dice coefficients of every element of the batch.
TestDiceRef(loc) ==
    [i \in 1..Len(loc.labels_A2U) |->
        dice_coeff(Threshold(loc.annotated_labels)[i], Threshold(loc.unannotated_labels)[i])]
TestDiceSeg(loc) ==
    [i \in 1..Len(loc.labels_A2U) |->
        dice_coeff(Threshold(loc.labels_A2U)[i], Threshold(loc.unannotated_labels)[i])]

\* Lines 475-502: the model is built, the checkpoint loaded, the sums and
\* lists bound, the plotting interval computed.
TestSetUp ==
    /\ TestFrame
    /\ test_pc = "start"
    /\ IF test_checkpoint_file = NoCheckpoint
       THEN /\ test_pc' = "FileNotFoundError"
            /\ UNCHANGED <<test_warp_predictor, test_plot_freq>>
       ELSE /\ test_warp_predictor' = test_checkpoint_file
            /\ test_plot_freq' = IF test_n_plot_per_epoch = NoneGiven THEN 1
                                 ELSE Len(test_set) \div test_n_plot_per_epoch[1]
            /\ test_pc' = "loop"
    /\ UNCHANGED <<test_n_plot_per_epoch, test_set, test_bound, test_checkpoint_file,
                   test_iter_idx, test_sums, test_dice_ref_list, test_dice_seg_list,
                   log_lines>>

\* Lines 504-565, one iteration.  Line 505 divides by a plot_freq of 0.  An
\* iteration that plots reads config.save_folder at line 541 and then, at line
\* 543, label_is_binary, a name test never binds and the module does not
\* define: the call of plot_side_by_side is not reached.
TestBatch ==
    /\ TestFrame
    /\ test_pc = "loop"
    /\ test_iter_idx < Len(test_set)
    /\ IF test_plot_freq = 0
       THEN /\ test_pc' = "ZeroDivisionError"
            /\ UNCHANGED <<test_iter_idx, test_sums, test_dice_ref_list,
                           test_dice_seg_list>>
       ELSE LET loc == TestLocals(test_warp_predictor, test_set[test_iter_idx + 1])
                shall_plot == test_iter_idx % test_plot_freq = test_plot_freq - 1
                loss_forward == mse_loss(loc.annotated_images, loc.images_U2A)
                loss_cyclic == mse_loss(loc.unannotated_images, loc.images_U2A_A2U)
            IN /\ test_dice_ref_list' = test_dice_ref_list \o TestDiceRef(loc)
               /\ test_dice_seg_list' = test_dice_seg_list \o TestDiceSeg(loc)
               /\ IF shall_plot
                  THEN /\ test_pc' = IF "config.save_folder" \notin test_bound
                                     THEN "AttributeError" ELSE "NameError"
                       /\ UNCHANGED <<test_iter_idx, test_sums>>
                  ELSE /\ test_sums' =
                            [test_loss |-> RatAdd(test_sums.test_loss,
                                                  RatAdd(loss_forward, loss_cyclic)),
                             test_loss_forward |->
                                 RatAdd(test_sums.test_loss_forward, loss_forward),
                             test_loss_cyclic |->
                                 RatAdd(test_sums.test_loss_cyclic, loss_cyclic)]
                       /\ test_iter_idx' = test_iter_idx + 1
                       /\ UNCHANGED test_pc
    /\ UNCHANGED <<test_n_plot_per_epoch, test_set, test_bound, test_checkpoint_file,
                   test_warp_predictor, test_plot_freq, log_lines>>

\* Lines 566-576 after the loop: the sums are divided by iter_idx + 1, a name
\* the loop over an empty test set has not bound; otherwise the averages and
\* the Dice lists are logged and test returns.
TestFinish ==
    /\ TestFrame
    /\ test_pc = "loop"
    /\ test_iter_idx = Len(test_set)
    /\ IF Len(test_set) = 0
       THEN test_pc' = "UnboundLocalError" /\ UNCHANGED <<test_sums, log_lines>>
       ELSE /\ test_sums' =
                 [test_loss |-> RatOver(test_sums.test_loss, test_iter_idx),
                  test_loss_forward |-> RatOver(test_sums.test_loss_forward, test_iter_idx),
                  test_loss_cyclic |-> RatOver(test_sums.test_loss_cyclic, test_iter_idx)]
            /\ log_lines' = Append(log_lines,
                                   [what |-> "test", value |-> test_sums',
                                    dice_ref |-> test_dice_ref_list,
                                    dice_seg |-> test_dice_seg_list])
            /\ test_pc' = "returned"
    /\ UNCHANGED <<test_n_plot_per_epoch, test_set, test_bound, test_checkpoint_file,
                   test_warp_predictor, test_iter_idx, test_plot_freq,
                   test_dice_ref_list, test_dice_seg_list>>

----------------------------------------------------------------------------
(* Specifications *)

\* stitch_patches on a folder of patch files.
Init ==
    StitchInit /\ OrientIdle /\ TrainIdle /\ EvalIdle /\ InferIdle /\ CyclicIdle /\ TestIdle

Next ==
    \/ StartStitch
    \/ ScanFile
    \/ ScanAbort
    \/ ScanDone
    \/ BeginGroup
    \/ WritePatch
    \/ WriteAbort
    \/ SaveCanvas
    \/ FinishStitch

Spec == Init /\ [][Next]_vars

\* predict_flipping_rotation, then apply_flipping_rotation on what it returns.
InitOrient ==
    OrientInit /\ StitchIdle /\ TrainIdle /\ EvalIdle /\ InferIdle /\ CyclicIdle /\ TestIdle

NextOrient ==
    \/ PredictStart
    \/ EnumerateCandidate
    \/ SelectBest
    \/ ApplyForwardReverse

SpecOrient == InitOrient /\ [][NextOrient]_vars

\* train on a dataset, alongside a run on the same images with other labels.
InitTrain ==
    TrainInit /\ StitchIdle /\ OrientIdle /\ EvalIdle /\ InferIdle /\ CyclicIdle /\ TestIdle

NextTrain ==
    \/ BeginEpoch
    \/ ReturnAfterLastEpoch
    \/ TrainBatchHead
    \/ TrainBatchRaise
    \/ DebuggerContinue
    \/ DebuggerQuit
    \/ TrainEpochEnd
    \/ TrainEpochEndRaise
    \/ ValBatch
    \/ ValBatchRaise
    \/ ValEpochEnd
    \/ ValEpochEndRaise
    \/ SaveIfBest
    \/ EarlyStopCheck

SpecTrain == InitTrain /\ [][NextTrain]_vars

\* eval_stitched on a folder of stitched canvases and a ground-truth folder.
InitEval ==
    /\ EvalInit
    /\ StitchAtRest
    /\ \E S \in { S \in SUBSET PredPathPool : Cardinality(S) <= MaxFiles } :
           disk_stitched \in [S -> {ZeroCanvas, FirstRowCanvas}]
    /\ OrientIdle
    /\ TrainIdle
    /\ InferIdle
    /\ CyclicIdle
    /\ TestIdle

NextEval ==
    \/ EvalList
    \/ EvalListRaise
    \/ EvalAssertCounts
    \/ EvalPair
    \/ EvalReturn
    \/ EvalReturnRaise

SpecEval == InitEval /\ [][NextEval]_vars

\* infer, with the calls of stitch_patches and eval_stitched it makes.
InitInfer == InferInit /\ OrientIdle /\ TrainIdle /\ CyclicIdle /\ TestIdle

NextInfer ==
    \/ InferPrepare
    \/ InferLoadWeights
    \/ InferLoadPairs
    \/ InferBatch
    \/ InferWrite
    \/ InferCallStitch
    \/ ipc = "stitch" /\ Next
    \/ InferStitchRaise
    \/ InferCallEval
    \/ ipc = "eval" /\ NextEval
    \/ InferEvalRaise
    \/ InferReport

SpecInfer == InitInfer /\ [][NextInfer]_vars

\* The cyclic loss of one image under one pair of fields.
InitCyclic ==
    CyclicInit /\ StitchIdle /\ OrientIdle /\ TrainIdle /\ EvalIdle /\ InferIdle /\ TestIdle

NextCyclic ==
    \/ CyclicWarp
    \/ CyclicDebuggerStatement
    \/ CyclicDebuggerQuit
    \/ ComputeCyclicLoss

SpecCyclic == InitCyclic /\ [][NextCyclic]_vars

\* test on a test set, from a checkpoint.
InitTest ==
    /\ TestInit
    /\ StitchIdle
    /\ OrientIdle
    /\ TrainIdle
    /\ EvalIdle
    /\ InferIdle
    /\ CyclicIdle

NextTest ==
    \/ TestSetUp
    \/ TestBatch
    \/ TestFinish

SpecTest == InitTest /\ [][NextTest]_vars

----------------------------------------------------------------------------
(* Properties of stitch_patches *)

\* The nominal footprint of a patch named H{h}_W{w}: imsize x imsize pixels from (h, w).
Covers(h, w, rc) ==
    /\ h <= rc[1] /\ rc[1] < h + imsize
    /\ w <= rc[2] /\ rc[2] < w + imsize

\* All patches of the current group have been written (line 650 is next).
GroupFinished == spc = "patch" /\ patch_j > Len(label_patch_list)

\* Line 648 has just run for label_patch_list[patch_j - 1].
JustWritten == spc = "patch" /\ patch_j > 1

\* C1: when a group is finished, every canvas pixel covered by a patch of the
\* group holds the value of the covering patch whose path is last in sorted
\* order, and every pixel covered by no patch of the group is 0.
C1_LastCoveringPatchWins ==
    GroupFinished =>
        LET n == Len(label_patch_list)
            hw == [k \in 1..n |-> extract_h_w(label_patch_list[k])]
        IN \A rc \in Pixels :
             LET cov == { k \in 1..n : Covers(hw[k][1], hw[k][2], rc) }
             IN IF cov = {} THEN label_stitched[rc] = 0
                ELSE LET k == CHOOSE x \in cov : \A y \in cov :
                                  y = x \/ StrLess(label_patch_list[y], label_patch_list[x])
                     IN label_stitched[rc] =
                          PatchPixel(label_patch_list[k], rc[1] - hw[k][1], rc[2] - hw[k][2])

\* C1 witness: a finished group in which two patches with different values
\* overlap on a pixel, and some pixel is covered by no patch.
C1_Witness ==
    /\ GroupFinished
    /\ Len(label_patch_list) >= 2
    /\ LET h1 == extract_h_w(label_patch_list[1])
           h2 == extract_h_w(label_patch_list[2])
       IN /\ \E rc \in Pixels :
               /\ Covers(h1[1], h1[2], rc) /\ Covers(h2[1], h2[2], rc)
               /\ PatchPixel(label_patch_list[1], rc[1] - h1[1], rc[2] - h1[2])
                    > PatchPixel(label_patch_list[2], rc[1] - h2[1], rc[2] - h2[2])
          /\ \E rc \in Pixels : ~Covers(h1[1], h1[2], rc) /\ ~Covers(h2[1], h2[2], rc)

\* C2: one canvas per distinct base identifier, and every patch file is written
\* into the canvas of its own base identifier and into no other canvas.
C2_PatchOnlyIntoOwnCanvas ==
    /\ \A pb \in written_into : pb[2] = BaseLabelPath(pb[1])
    /\ spc = "done" =>
         Len(stitched_label_list) =
             Cardinality({ BaseLabelPath(label_list[k]) : k \in 1..Len(label_list) })

\* C3: a patch at (h, w) is written without error when its footprint meets the
\* canvas, it assigns exactly the in-canvas pixels of its footprint, and each
\* of them receives patch pixel (r - h, c - w); a patch at H-5_W0 fills canvas
\* rows 0..26 from patch rows 5..31.
C3_PatchPixelsLandAtOffset ==
    /\ spc = "ValueError" =>
         \A rc \in Pixels : ~Covers(last_write.h, last_write.w, rc)
    /\ JustWritten =>
         /\ last_write.rows \X last_write.cols =
              { rc \in Pixels : Covers(last_write.h, last_write.w, rc) }
         /\ \A rc \in last_write.rows \X last_write.cols :
              label_stitched[rc] =
                 PatchPixel(last_write.path, rc[1] - last_write.h, rc[2] - last_write.w)
         /\ (last_write.h = -5 /\ last_write.w = 0) =>
              /\ last_write.rows = 0..26
              /\ \A rc \in (0..26) \X (0..31) :
                   label_stitched[rc] = PatchPixel(last_write.path, rc[1] + 5, rc[2])

\* C3 witness: a ramp patch at H-5_W0 has just been written.
C3_Witness ==
    /\ JustWritten
    /\ last_write.h = -5 /\ last_write.w = 0
    /\ patch_content[last_write.path].kind = "ramp"
    /\ label_stitched[<<26, 3>>] = PatchPixel(last_write.path, 31, 3)

\* The interval [lo, hi) of canvas indices.
Interval(lo, hi) == { x \in lo..(hi - 1) : TRUE }

\* C4 as stated: the rows written are [start_row, end_row) with
\* end_row = min(start_row + patch_size - min(0, h), canvas_height), and
\* likewise for the columns.
C4_RegionAsStated ==
    JustWritten =>
        /\ last_write.rows =
             Interval(Max(0, last_write.h),
                      Min(Max(0, last_write.h) + imsize - Min(0, last_write.h), CanvasH))
        /\ last_write.cols =
             Interval(Max(0, last_write.w),
                      Min(Max(0, last_write.w) + imsize - Min(0, last_write.w), CanvasW))

\* C4 amended: the rows written are [start_row, end_row) with
\* end_row = min(start_row + patch_size + min(0, h), canvas_height), likewise
\* for the columns; the write raises an error only when that region is empty.
C4_RegionAmended ==
    /\ JustWritten =>
        /\ last_write.rows =
             Interval(Max(0, last_write.h),
                      Min(Max(0, last_write.h) + imsize + Min(0, last_write.h), CanvasH))
        /\ last_write.cols =
             Interval(Max(0, last_write.w),
                      Min(Max(0, last_write.w) + imsize + Min(0, last_write.w), CanvasW))
    /\ spc = "ValueError" =>
        \/ Interval(Max(0, last_write.h),
                    Min(Max(0, last_write.h) + imsize + Min(0, last_write.h), CanvasH)) = {}
        \/ Interval(Max(0, last_write.w),
                    Min(Max(0, last_write.w) + imsize + Min(0, last_write.w), CanvasW)) = {}

\* C4 witness: a patch clipped by the right edge of the canvas has been written.
C4_Witness ==
    /\ JustWritten
    /\ last_write.w > 0
    /\ last_write.w + imsize > CanvasW
    /\ last_write.cols = last_write.w .. (CanvasW - 1)

\* A path on which the assertion of extract_h_w fails.
BadPath(f) == Len(FindAll(f)) # 1

\* C5: when a patch path has zero or several H{int}_W{int} matches, the run
\* never gets past the first loop, it stops there with the assertion error
\* at the first such path, and no raw or colored canvas is written.
C5_AbortBeforeAnyCanvas ==
    (\E f \in GlobPng(folder_files) : BadPath(f)) =>
        /\ spc \in {"start", "scan", "AssertionError"}
        /\ disk_stitched = <<>>
        /\ disk_colored = <<>>
        /\ stitched_label_list = <<>>
        /\ spc # "start" => \A k \in 1..(scan_i - 1) : ~BadPath(label_list[k])
        /\ (spc = "scan" /\ scan_i > Len(label_list)) => FALSE

\* C5 witness: the assertion failed on a path with two matches after a good
\* path had been scanned.
C5_Witness ==
    /\ spc = "AssertionError"
    /\ scan_i = 2
    /\ Len(FindAll(label_list[scan_i])) = 2

----------------------------------------------------------------------------
(* Properties of predict_flipping_rotation *)

\* C6: for every enumerated candidate, the paired reverse transform applied to
\* the output of the forward transform gives back the original image.
C6_ReverseUndoesForward ==
    \A k \in 1..Len(transform_forward_list) :
        flip_rot_batch(flip_rot_batch(image_moving, transform_forward_list[k]),
                       transform_reverse_list[k]) = image_moving

\* The largest entry of the response map of candidate k for batch element b.
ResponseMax(k, b) ==
    SetMax({ ncc_response[k][b][i][j] :
                 i \in 1..Len(ncc_response[k][b]), j \in 1..Len(ncc_response[k][b][1]) })

\* The first candidate, in enumeration order, with the highest score for b.
FirstBest(b) ==
    CHOOSE k \in 1..NumCandidates :
        /\ \A y \in 1..NumCandidates : ResponseMax(y, b) <= ResponseMax(k, b)
        /\ \A y \in 1..(k - 1) : ResponseMax(y, b) < ResponseMax(k, b)

\* C7: for each batch element the returned forward and reverse transforms are
\* those of one candidate index, the first in enumeration order (no flip 0, 90,
\* 180, 270, then flip 0, 90, 180, 270) among those with the highest score.
C7_FirstBestCandidatePerElement ==
    opc \in {"returned", "applied"} =>
        \A b \in 1..BatchSize :
            LET k == FirstBest(b)
            IN /\ flip_rot_transform_forward[b] =
                    [fliplr |-> k > 4, rot_angle |-> 90 * ((k - 1) % 4)]
               /\ flip_rot_transform_forward[b] = transform_forward_list[k]
               /\ flip_rot_transform_reverse[b] = transform_reverse_list[k]

\* C7 witness: two batch elements get different candidates, and for one of
\* them a later candidate ties with the returned one.
C7_Witness ==
    /\ opc = "returned"
    /\ flip_rot_transform_forward[1] # flip_rot_transform_forward[2]
    /\ \E k \in 1..NumCandidates :
          /\ k > FirstBest(1)
          /\ ResponseMax(k, 1) = ResponseMax(FirstBest(1), 1)

----------------------------------------------------------------------------
(* Properties of train *)

\* The loss the spec states, from the images and the parameters of a batch.
StatedLoss(theta, annotated_image, unannotated_image) ==
    LET predicted == WarpPredictor(theta, Cat(annotated_image, unannotated_image))
        U2A == Warper(unannotated_image, FirstTwoChannels(predicted))
        U2A2U == Warper(U2A, LastTwoChannels(predicted))
    IN RatAdd(mse_loss(annotated_image, U2A), mse_loss(unannotated_image, U2A2U))

BatchLossComputed == batch.phase \in {"train", "val"} /\ batch.loss # NotYet

\* C8: in every training and validation batch the loss is
\* MSE(annotated_image, U2A) + MSE(unannotated_image, U2A2U), with
\* U2A = warp(unannotated_image, forward), U2A2U = warp(U2A, reverse) and
\* forward / reverse the first two / last two channels of the predictor output
\* on [annotated_image, unannotated_image]; the code of the training phase and
\* the code of the validation phase give the same loss on the same inputs and
\* parameters.
C8_LossIsForwardPlusCyclic ==
    BatchLossComputed =>
        /\ batch.loss = StatedLoss(batch.theta, batch.views.annotated_images,
                                   batch.views.unannotated_images)
        /\ run.loss = batch.loss
        /\ TrainLoss(TrainLocals(batch.theta, batch.views, label_kind))
             = ValLoss(ValLocals(batch.theta, batch.views, label_kind))

\* A validation batch of two pairs after an epoch of training, with a
\* non-zero loss whose two terms differ and whose two fields differ.
C8_Witness ==
    /\ BatchLossComputed
    /\ batch.phase = "val"
    /\ batch.epoch_idx >= 1
    /\ batch.curr_batch_size = 2
    /\ batch.loss_forward # RatZero
    /\ batch.loss_cyclic # RatZero
    /\ batch.loss_forward # batch.loss_cyclic
    /\ batch.locals.warp_field_forward # batch.locals.warp_field_reverse

\* C9: labels never influence training.  The comparison run starts from the
\* same parameters and sees the same image batches and permutations with
\* other label tensors; while it has passed its label assertions, its
\* losses, parameters, checkpoint decisions and early-stopping decisions are
\* those of the run.
C9_LabelsDoNotInfluenceTraining ==
    other.alive =>
        /\ other.loss = run.loss
        /\ other.train_loss = run.train_loss
        /\ other.val_loss = run.val_loss
        /\ other.theta = run.theta
        /\ other.saved = run.saved
        /\ other.best_val_loss = run.best_val_loss
        /\ other.checkpoint = run.checkpoint
        /\ other.early_stopper = run.early_stopper
        /\ other.stop = run.stop

\* Two runs in strong mode whose warped labels differ, past a checkpoint
\* that was written in the second epoch and an early stop.
C9_Witness ==
    /\ strong
    /\ other.alive
    /\ tpc = "returned"
    /\ run.stop
    /\ Len(history) >= 2
    /\ history[2].saved
    /\ batch.phase = "val"
    /\ batch.locals.labels_A2U #
         ValLocals(batch.theta, BatchViews(batch.ids, permuted_idx, other_label_kind),
                   other_label_kind).labels_A2U

\* The least validation loss of the epochs 1..e, +infinity for e = 0.
RECURSIVE LeastLoss(_)
LeastLoss(e) ==
    IF e = 0 THEN Inf
    ELSE IF RatLess(history[e].val_loss, LeastLoss(e - 1))
         THEN history[e].val_loss ELSE LeastLoss(e - 1)
EarliestLeast(e) == CHOOSE k \in 1..e :
    /\ history[k].val_loss = LeastLoss(e)
    /\ \A m \in 1..(k - 1) : history[m].val_loss # LeastLoss(e)

\* C10: at the end of every epoch the weights are saved iff the validation
\* loss of the epoch is strictly below the least validation loss of all
\* earlier epochs (+infinity at first); after every epoch the running best
\* is the least validation loss so far, it never goes up, and the checkpoint
\* file holds the weights of the earliest epoch that reached that least loss.
C10_CheckpointTracksStrictBest ==
    /\ \A e \in 1..Len(history) :
         /\ history[e].saved <=> RatLess(history[e].val_loss, LeastLoss(e - 1))
         /\ history[e].best_val_loss = LeastLoss(e)
         /\ e > 1 => ~RatLess(history[e - 1].best_val_loss, history[e].best_val_loss)
         /\ history[e].checkpoint = history[EarliestLeast(e)].weights
    /\ tpc # "checkpoint" =>
         /\ run.best_val_loss = LeastLoss(Len(history))
         /\ run.checkpoint = IF history = <<>> THEN NoCheckpoint
                             ELSE history[EarliestLeast(Len(history))].weights

\* Three epochs: the second improves and is saved, the third ties the second
\* with other weights and is not saved.
C10_Witness ==
    /\ Len(history) = 3
    /\ history[1].saved
    /\ history[2].saved
    /\ ~history[3].saved
    /\ history[3].val_loss = history[2].val_loss
    /\ history[3].weights # history[2].weights
    /\ run.checkpoint = history[2].weights

\* Inputs with which no line of train raises: both loaders hold samples and at
\* least n_plot_per_epoch batches, and the labels pass the assertion.
InputsRaiseNothing ==
    /\ Len(train_loader) >= n_plot_per_epoch
    /\ Len(val_loader) >= n_plot_per_epoch
    /\ label_kind # "overflow"

\* train has ended: it returned or raised.
TrainEnded == tpc \in {"returned", "BdbQuit", "ZeroDivisionError", "AssertionError"}

\* C11: train runs epochs in order, each a training phase followed by a
\* validation phase, and ends at the end of the first epoch whose validation
\* loss makes the early stopper signal stop; after the signal no batch is
\* processed and no checkpoint is written; if the early stopper never signals
\* stop, exactly max_epochs epochs run and train returns.  As a property of
\* states: the epochs finished so far are the epochs begun, less the current
\* one; the validation phase of an epoch comes after its training phase; a
\* stop signal ends train at once; train returns only after a stop
\* signal or after max_epochs epochs; and on inputs that raise nothing a run
\* that has ended has returned.
C11_RunsUntilStopOrMaxEpochs ==
    /\ Len(history) = IF tpc \in {"early_stop", "returned"} /\ ~(tpc = "returned" /\ ~run.stop)
                      THEN epoch_idx + 1 ELSE epoch_idx
    /\ tpc \in {"train", "pdb", "epoch"} => lr_epochs = epoch_idx
    /\ tpc \in {"val", "checkpoint", "early_stop"} => lr_epochs = epoch_idx + 1
    /\ run.stop => tpc = "returned"
    /\ tpc = "returned" =>
         \/ run.stop /\ Len(history) <= MaxEpochs
         \/ ~run.stop /\ Len(history) = MaxEpochs
    /\ InputsRaiseNothing /\ TrainEnded => tpc = "returned"

\* C12: the parameters of the warp predictor change only in the optimizer
\* step of a training batch, once per training batch: the step that finishes
\* a training batch (lines 265-310) applies one optimizer step to them, and
\* every other step (validation batches, the learning-rate step, the
\* checkpoint save, the early-stopping check) leaves them as they are.
C12_ParametersChangeOnlyInOptimizerStep ==
    [][/\ (tpc = "pdb" /\ tpc' = "train") =>
             run'.theta = OptimizerStep(run.theta, batch.views, label_kind)
       /\ ~(tpc = "pdb" /\ tpc' = "train") => run'.theta = run.theta
       /\ tpc = "val" => run'.theta = run.theta
       /\ lr_epochs' # lr_epochs => run'.theta = run.theta
       /\ tpc \in {"checkpoint", "early_stop"} => run'.theta = run.theta]_vars

\* Two epochs with their validation phases, checkpoint decisions and
\* learning-rate steps are over, and the parameters differ between them.
C12_Witness ==
    /\ Len(history) >= 2
    /\ lr_epochs >= 2
    /\ history[1].weights # history[2].weights
    /\ history[2].weights = run.theta

\* The values of a batch of label tensors.
LabelValues(t) == { t[b][i][j] : b \in 1..Len(t), i \in 1..ImgSize, j \in 1..ImgSize }

\* C13: in the training and validation phases, a batch of binary
\* (non-floating-point) labels with any annotated or unannotated value outside
\* {0, 1} raises the assertion before thresholding, warping and loss; so a
\* batch that got as far as thresholding and warping held values of {0, 1}
\* only.
C13_BinaryLabelsOutsideZeroOneAbort ==
    (batch.phase \in {"train", "val"} /\ batch.locals.label_is_binary) =>
        /\ LabelValues(batch.views.annotated_labels) \subseteq {0, 1}
        /\ LabelValues(batch.views.unannotated_labels) \subseteq {0, 1}

\* The metric the spec states: Dice for binary labels, otherwise the sum of
\* |a - b| over all pixels divided by the number of pixels.
StatedMetric(label_is_binary, a, b) ==
    IF label_is_binary THEN dice_coeff(a, b)
    ELSE Rat(SumTo([i \in 1..ImgSize |->
                 SumTo([j \in 1..ImgSize |-> Abs(a[i][j] - b[i][j])], ImgSize)], ImgSize),
             ImgSize * ImgSize)

\* The number of samples in the batches 1..n of a loader.
SamplesUpTo(loader, n) == SumTo([b \in 1..n |-> Len(loader[b])], n)

\* C14: for each sample of each batch exactly one reference value
\* metric(annotated_label, unannotated_label) and exactly one registered value
\* metric(predicted_label, unannotated_label) are recorded, the metric being
\* Dice for binary labels and otherwise the mean absolute pixel difference.
\* After a batch the lists of its phase hold one value per sample so far, and
\* the values of the samples of the batch are the stated ones.
C14_OneStatedMetricPairPerSample ==
    BatchLossComputed =>
        LET loc == batch.locals
            loader == IF batch.phase = "train" THEN train_loader ELSE val_loader
            ref_list == IF batch.phase = "train" THEN run.train_metric_ref_list
                        ELSE run.val_metric_ref_list
            seg_list == IF batch.phase = "train" THEN run.train_metric_seg_list
                        ELSE run.val_metric_seg_list
            before == SamplesUpTo(loader, batch.iter_idx)
        IN /\ Len(ref_list) = before + batch.curr_batch_size
           /\ Len(seg_list) = before + batch.curr_batch_size
           /\ \A i \in 1..batch.curr_batch_size :
                /\ ref_list[before + i] =
                     StatedMetric(loc.label_is_binary, loc.annotated_labels[i],
                                  loc.unannotated_labels[i])
                /\ seg_list[before + i] =
                     StatedMetric(loc.label_is_binary, loc.labels_A2U[i],
                                  loc.unannotated_labels[i])


\* The pairs eval_stitched has computed a metric for.
MetricPairs == { <<pred_list[k], true_list[k]>> : k \in 1..Len(metric_list) }

\* C17: whenever eval_stitched computes a metric for a pair, the predicted
\* file and the ground-truth file have the same file name, and the
\* ground-truth file is one of a configured file id.
C17_PairsShareFileName ==
    \A pair \in MetricPairs :
        /\ Basename(pair[1]) = Basename(pair[2])
        /\ HoldsFileId(Basename(pair[2]), file_ids)

\* C18: eval_stitched never gets to the loop over the pairs when the number of
\* predicted files differs from the number of filtered ground-truth files;
\* every pair it has computed a metric for has two label maps of one shape,
\* and the loop goes no further than the first pair whose shapes differ; a
\* result mapping exists only after a return, and a return only after every
\* pair of equally long lists has passed the shape assertion.
C18_AbortsOnCountOrShapeMismatch ==
    /\ epc \in {"pairs", "returned"} => Len(pred_list) = Len(true_list)
    /\ Len(pred_list) # Len(true_list) => metric_list = <<>>
    /\ \A pair \in MetricPairs : ShapesEqual(disk_stitched[pair[1]], true_disk[pair[2]])
    /\ epc \in {"pairs", "returned", "AssertionError", "IndexError"} =>
           Len(metric_list) = pair_i - 1
    /\ epc = "returned" => Len(metric_list) = Len(pred_list)
    /\ eval_results # NoResults <=> epc = "returned"

\* The second pair fails the shape assertion after the first pair got its metric.
C18_Witness ==
    /\ epc = "AssertionError"
    /\ Len(pred_list) = Len(true_list)
    /\ Len(metric_list) = 1
    /\ pair_i = 2
    /\ ~ShapesEqual(disk_stitched[pred_list[2]], true_disk[true_list[2]])
    /\ eval_results = NoResults


\* infer has come to its end, by return or by an exception.
InferEnded ==
    ipc \in {"returned", "AttributeError", "NameError", "FileNotFoundError",
             "TypeError", "AssertionError", "ValueError", "UnboundLocalError",
             "IndexError"}

\* The predicted label the spec states for the i-th test image: the closest
\* label i warped by the reverse field predicted from [closest image i, test
\* image i], thresholded at 0.5.
StatedPrediction(i) ==
    LET field == LastTwoChannels(
                     WarpPredictor(checkpoint_file,
                                   Cat(<<closest_image(i)>>, <<test_image(i)>>)))
    IN Threshold(Warper(<<closest_label(i)>>, field))[1]

\* C15: a run of infer from a loadable checkpoint leaves in pred_label_folder
\* exactly one file per test image, the file of the i-th test image bearing
\* the base name of test_image_paths[i] and holding the thresholded label
\* stated for it.
C15_OneStatedFilePerTestImage ==
    (InferEnded /\ checkpoint_file # NoCheckpoint) =>
        /\ folder_files = { PredFileName(test_image_paths, i) :
                               i \in 1..Len(test_image_paths) }
        /\ \A i \in 1..Len(test_image_paths) :
              patch_content[PredFileName(test_image_paths, i)] =
                  [kind |-> "image", image |-> StatedPrediction(i)]

\* What infer has reported, in the order of the reports.
Reported == [k \in 1..Len(log_lines) |-> log_lines[k].what]

\* C16: a run of infer from a loadable checkpoint and at least one matched
\* pair ends by returning, having predicted every batch, written every file,
\* stitched, evaluated and reported the stitched metrics, and having reported
\* the per-patch Dice and IoU exactly if there are test labels.
C16_ReachesReportInOrder ==
    (InferEnded /\ checkpoint_file # NoCheckpoint /\ Len(test_image_paths) >= 1) =>
        /\ ipc = "returned"
        /\ Len(pred_label_list) = Len(test_image_paths)
        /\ spc = "done"
        /\ epc = "returned"
        /\ Reported = <<"done stitching", "stitched", "stitched", "stitched">>
                      \o (IF test_labels_given THEN <<"dice", "iou">> ELSE <<>>)


\* C19: a phase of train over an empty loader raises nothing: the run does
\* not end with ZeroDivisionError in the training phase (before the
\* lr_scheduler step of the epoch) when the training loader is empty, nor in
\* the validation phase (after it) when the validation loader is empty.
C19_EmptyPhaseRaisesNothing ==
    /\ Len(train_loader) = 0 => ~(tpc = "ZeroDivisionError" /\ lr_epochs = epoch_idx)
    /\ Len(val_loader) = 0 => ~(tpc = "ZeroDivisionError" /\ lr_epochs = epoch_idx + 1)


\* Where a field sends the pixel p, in units of 1/FlowUnit of a pixel.
GridPositions == (1..ImgSize) \X (1..ImgSize)
Landing(field, p) ==
    << FlowUnit * p[1] + field[1][p[1]][p[2]], FlowUnit * p[2] + field[2][p[1]][p[2]] >>

\* The reverse field is the exact inverse of the forward field: the
\* displacement of the reverse field at a pixel and the displacement of the
\* forward field where the reverse field lands cancel, along the rows and
\* along the columns, at every pixel. Between pixels the forward field is
\* interpolated, and beyond the edge it keeps the value it has on the edge.
IsExactInverse(forward, reverse) ==
    \A p \in GridPositions : \A axis \in 1..2 :
        FlowUnit * FlowUnit * reverse[axis][p[1]][p[2]]
        + BilinearSum(forward[axis], Landing(reverse, p)[1], Landing(reverse, p)[2]) = 0

\* The field sends every pixel onto a pixel of the image: by a whole number
\* of pixels, and not beyond the edge.
LandsOnPixels(field) ==
    \A p \in GridPositions :
        \E q \in GridPositions : Landing(field, p) = <<FlowUnit * q[1], FlowUnit * q[2]>>

IsZeroField(field) == field = UniformField(0, 0)

\* Line 301 reads the twice-warped image line 258 computed: no statement at
\* the prompt of line 263 has bound images_U2A_A2U to another tensor.
TwiceWarpedKept ==
    cyc_locals.images_U2A_A2U = ImagesU2AA2U(cyc_image, cyc_forward, cyc_reverse)

\* C20 as stated: the cyclic loss is non-negative, zero when the reverse
\* field is the exact inverse of the forward field, and zero only then.
C20_ZeroOnlyForExactInverse ==
    (cpc = "done" /\ TwiceWarpedKept) =>
        /\ cyc_loss[1] >= 0 /\ cyc_loss[2] > 0
        /\ IsExactInverse(cyc_forward, cyc_reverse) => cyc_loss = RatZero
        /\ cyc_loss = RatZero => IsExactInverse(cyc_forward, cyc_reverse)

\* C20, amended: the cyclic loss of an iteration that got past the debugger
\* prompt with the twice-warped image as computed is non-negative; it is
\* zero when the reverse field is the exact inverse of the forward field and
\* sends every pixel onto a pixel of the image; and it is zero exactly when
\* the twice-warped image equals the image pixel by pixel, whatever the
\* fields are.
C20_ZeroForInverseLandingOnPixels ==
    (cpc = "done" /\ TwiceWarpedKept) =>
        /\ cyc_loss[1] >= 0 /\ cyc_loss[2] > 0
        /\ (IsExactInverse(cyc_forward, cyc_reverse) /\ LandsOnPixels(cyc_reverse))
               => cyc_loss = RatZero
        /\ cyc_loss = RatZero <=> cyc_locals.images_U2A_A2U = cyc_locals.unannotated_images

\* A pair of two different fields, exact inverses that land on pixels, on
\* an image the forward field changes.
C20_Witness ==
    /\ cpc = "done"
    /\ TwiceWarpedKept
    /\ IsExactInverse(cyc_forward, cyc_reverse)
    /\ LandsOnPixels(cyc_reverse)
    /\ cyc_forward # cyc_reverse
    /\ ImagesU2A(cyc_image, cyc_forward) # <<cyc_image>>
    /\ cyc_loss = RatZero

\* Exact inverses by a whole pixel whose sampling leaves the image, and exact
\* inverses by half a pixel: the loss is not zero.
C20_InverseBeyondEdgeLoses ==
    /\ cpc = "done"
    /\ TwiceWarpedKept
    /\ cyc_forward = UniformField(0, FlowUnit)
    /\ cyc_reverse = UniformField(0, 0 - FlowUnit)
    /\ IsExactInverse(cyc_forward, cyc_reverse)
    /\ cyc_loss # RatZero
C20_InverseBetweenPixelsLoses ==
    /\ cpc = "done"
    /\ TwiceWarpedKept
    /\ cyc_forward = UniformField(0, 1)
    /\ cyc_reverse = UniformField(0, -1)
    /\ IsExactInverse(cyc_forward, cyc_reverse)
    /\ cyc_loss # RatZero

\* Fields that are not inverses of each other, on an image that is not of
\* one colour: the loss is zero.
C20_ZeroWithoutInverse ==
    /\ cpc = "done"
    /\ TwiceWarpedKept
    /\ ~IsExactInverse(cyc_forward, cyc_reverse)
    /\ \E p, q \in GridPositions : cyc_image[p[1]][p[2]] # cyc_image[q[1]][q[2]]
    /\ cyc_loss = RatZero


\* The offset (h, w) places a patch entirely outside the canvas.
OutsideCanvas(h, w) ==
    \/ h <= 0 - imsize
    \/ h >= stitched_size[1]
    \/ w <= 0 - imsize
    \/ w >= stitched_size[2]

\* C21: a patch whose offset places it entirely outside the canvas is
\* clipped to nothing: lines 640-648 raise nothing on it, the region read
\* from the patch and the region written on the canvas have the same shape,
\* and the region written is empty, so that the canvas stays as it was.
C21_OutsidePatchClippedToNothing ==
    (last_write.path # <<>> /\ OutsideCanvas(last_write.h, last_write.w)) =>
        /\ last_write.ok
        /\ spc # "ValueError"
        /\ Cardinality(NewPatchRows(last_write.h)) = Cardinality(TargetRows(last_write.h))
        /\ Cardinality(NewPatchCols(last_write.w)) = Cardinality(TargetCols(last_write.w))
        /\ (last_write.rows = {} \/ last_write.cols = {})


\* A batch is in hand: its views have been taken from the loader.
BatchInHand == batch.phase \in {"train", "val"}

\* The positions of a batch.
BatchPositions == 1..batch.curr_batch_size

\* C22: in weak mode the unannotated view of position i is view 0 of sample i
\* and the annotated view is view 1 of the same sample; in strong mode the
\* annotated view is view 1 of sample permuted_idx[i] for a permutation of
\* the batch, and that is another sample than i at every position.
C22_StrongPairsDifferentSamples ==
    BatchInHand =>
        /\ \A i \in BatchPositions :
              batch.views.unannotated_images[i] = ImageView(batch.ids[i], 0)
        /\ ~strong =>
              \A i \in BatchPositions :
                  batch.views.annotated_images[i] = ImageView(batch.ids[i], 1)
        /\ strong =>
              /\ permuted_idx \in BatchPermutations(batch.curr_batch_size)
              /\ \A i \in BatchPositions :
                    /\ batch.views.annotated_images[i] =
                           ImageView(batch.ids[permuted_idx[i]], 1)
                    /\ batch.ids[permuted_idx[i]] # batch.ids[i]


\* C23: in strong mode one permutation of the batch indexes the annotated
\* image and the annotated label alike, so that both come from the same batch
\* element; every batch element is the annotated source of exactly one
\* position; the unannotated image and label of position i are those of
\* element i.
C23_OnePermutationForImageAndLabel ==
    (BatchInHand /\ strong) =>
        /\ DOMAIN permuted_idx = BatchPositions
        /\ \A b \in BatchPositions :
              Cardinality({ i \in BatchPositions : permuted_idx[i] = b }) = 1
        /\ \A i \in BatchPositions :
              /\ batch.views.annotated_images[i] =
                     ImageView(batch.ids[permuted_idx[i]], 1)
              /\ batch.views.annotated_labels[i] =
                     LabelView(label_kind, batch.ids[permuted_idx[i]], 1)
              /\ batch.views.unannotated_images[i] = ImageView(batch.ids[i], 0)
              /\ batch.views.unannotated_labels[i] = LabelView(label_kind, batch.ids[i], 0)

\* A batch of two whose elements are exchanged: the annotated label of the
\* first position is that of the second element and differs from its own.
C23_Witness ==
    /\ BatchInHand
    /\ strong
    /\ permuted_idx = <<2, 1>>
    /\ batch.views.annotated_labels[1] = LabelView(label_kind, batch.ids[2], 1)
    /\ batch.views.annotated_labels[1] # LabelView(label_kind, batch.ids[1], 1)
    /\ batch.views.annotated_images[1] # ImageView(batch.ids[1], 1)


\* floor(L / n) for the loader of a phase.
PlotInterval(phase) ==
    (IF phase = "train" THEN Len(train_loader) ELSE Len(val_loader)) \div n_plot_per_epoch

\* C24: the plotting interval of a phase is floor(L / n), a figure is
\* emitted exactly for the batch indices i with i mod floor(L / n) =
\* floor(L / n) - 1, and with L >= 1 and n >= 1 the decision raises nothing:
\* the run does not end with ZeroDivisionError in a phase whose loader holds a
\* batch.
C24_PlotDecisionRaisesNothing ==
    /\ \A f \in figures :
          /\ PlotInterval(f[1]) >= 1
          /\ f[3] % PlotInterval(f[1]) = PlotInterval(f[1]) - 1
    /\ (BatchLossComputed /\ PlotInterval(batch.phase) >= 1) =>
          (<<batch.phase, batch.epoch_idx, batch.iter_idx>> \in figures
              <=> batch.iter_idx % PlotInterval(batch.phase) = PlotInterval(batch.phase) - 1)
    /\ Len(train_loader) >= 1 => ~(tpc = "ZeroDivisionError" /\ lr_epochs = epoch_idx)
    /\ Len(val_loader) >= 1 => ~(tpc = "ZeroDivisionError" /\ lr_epochs = epoch_idx + 1)


\* A square image whose pixels are all different.
AllPixelsDifferent(m) ==
    /\ \A i \in 1..Len(m) : Len(m[i]) = Len(m)
    /\ \A i, j, p, q \in 1..Len(m) : (m[i][j] = m[p][q]) => (i = p /\ j = q)

\* The horizontal mirror image: the column order reversed within each row.
MirrorHorizontally(m) == [i \in 1..Len(m) |-> [j \in 1..Len(m[i]) |-> m[i][Len(m[i]) + 1 - j]]]

EnumeratedAll == Len(transform_forward_list) = NumCandidates

\* C25: on a square image whose pixels are all different the 8 enumerated
\* forward transforms give 8 different images, the candidate that flips
\* without rotating is the horizontal mirror image (the column order reversed
\* within each row), and the composition of any two candidates is a candidate.
C25_EightDistinctWithHorizontalFlip ==
    \A b \in 1..Len(image_moving) :
        AllPixelsDifferent(image_moving[b]) =>
            /\ (/\ transform_forward_list # <<>>
                /\ transform_forward_list[Len(transform_forward_list)] =
                       [fliplr |-> TRUE, rot_angle |-> 0])
                   => transformed_image[b] = MirrorHorizontally(image_moving[b])
            /\ EnumeratedAll =>
                  /\ \A j, k \in 1..NumCandidates :
                        flip_rot(image_moving[b], transform_forward_list[j])
                            = flip_rot(image_moving[b], transform_forward_list[k])
                        => j = k
                  /\ \A j, k \in 1..NumCandidates : \E l \in 1..NumCandidates :
                        flip_rot(flip_rot(image_moving[b], transform_forward_list[j]),
                                 transform_forward_list[k])
                            = flip_rot(image_moving[b], transform_forward_list[l])


\* The patch files infer writes in this run, and the canvases this run's
\* stitch_patches call saves.
PredictedThisRun == { PredFileName(test_image_paths, i) : i \in 1..Len(test_image_paths) }
StitchedThisRun == { SavePath(base_label_list[k]) : k \in 1..Len(base_label_list) }
ListedSet(list) == { list[k] : k \in 1..Len(list) }

\* C26: in an infer run on an output root that earlier runs used, the patch
\* files stitch_patches lists are exactly the patch files predicted in this
\* run, and the canvases eval_stitched lists are exactly the canvases this
\* run's stitch_patches call saved: no patch file and no canvas left by an
\* earlier run is stitched or evaluated.
C26_OnlyThisRunStitchedAndEvaluated ==
    /\ (ipc = "stitch" /\ spc # "start") => ListedSet(label_list) = PredictedThisRun
    /\ (ipc = "eval" /\ epc # "start") =>
          /\ ListedSet(label_list) = PredictedThisRun
          /\ ListedSet(pred_list) = StitchedThisRun
====
